---------------------------- MODULE HashMapProofs ----------------------------
(***************************************************************************)
(* For every set of keys, hash function and sequence of calls: the map     *)
(* keeps its shape, and a key is found exactly if it has an entry.  The    *)
(* invariant behind it says that every node stands in the bucket its key   *)
(* hashes to, in the array as it is and in the one grow is filling.        *)
(***************************************************************************)
EXTENDS HashMapProps, FiniteSetTheorems, WellFoundedInduction, TLAPS

InPlace(b) ==
  \A i \in DOMAIN b : \A j \in 1 .. Len(b[i]) :
    hash_map_buckets_index(Size(b), b[i][j].key) = i

MapInv == TypeOK /\ InPlace(buckets) /\ InPlace(new_buckets)

-----------------------------------------------------------------------------
LEMMA SizeOf ==
  ASSUME NEW n \in Nat, NEW b, DOMAIN b = 0 .. (n - 1)
  PROVE  Size(b) = n
<1>1. Cardinality(0 .. (n - 1)) = IF 0 > n - 1 THEN 0 ELSE (n - 1) - 0 + 1
  BY FS_Interval, n - 1 \in Int, 0 \in Int
<1> QED
  BY <1>1 DEF Size

LEMMA IndexRange ==
  ASSUME NEW n \in Nat \ {0}, NEW k \in Keys
  PROVE  hash_map_buckets_index(n, k) \in 0 .. (n - 1)
<1>1. Hash[k] \in Nat
  BY HashAssumption
<1> QED
  BY <1>1 DEF hash_map_buckets_index

LEMMA CallocFacts ==
  ASSUME NEW n \in Nat
  PROVE  /\ Array(Calloc(n)) /\ Size(Calloc(n)) = n
         /\ InPlace(Calloc(n))
<1>1. DOMAIN Calloc(n) = 0 .. (n - 1)
  BY DEF Calloc
<1>2. Size(Calloc(n)) = n
  BY <1>1, SizeOf
<1>3. \A i \in 0 .. (n - 1) : Calloc(n)[i] = <<>>
  BY DEF Calloc
<1> QED
  BY <1>1, <1>2, <1>3 DEF Array, InPlace

LEMMA PushFacts ==
  ASSUME NEW S, NEW s \in Seq(S), NEW e \in S
  PROVE  /\ <<e>> \o s \in Seq(S)
         /\ \A j \in 1 .. Len(<<e>> \o s) :
              \/ (<<e>> \o s)[j] = e
              \/ \E m \in 1 .. Len(s) : (<<e>> \o s)[j] = s[m]
<1>1. <<e>> \in Seq(S) /\ Len(<<e>>) = 1 /\ <<e>>[1] = e
  OBVIOUS
<1>2. <<e>> \o s \in Seq(S) /\ Len(<<e>> \o s) = 1 + Len(s)
  BY <1>1
<1>3. \A j \in 1 .. Len(<<e>> \o s) :
        (<<e>> \o s)[j] = IF j <= 1 THEN <<e>>[j] ELSE s[j - 1]
  BY <1>1
<1> QED
  BY <1>1, <1>2, <1>3

LEMMA ConcatFacts ==
  ASSUME NEW S, NEW l \in Seq(S), NEW r \in Seq(S)
  PROVE  /\ l \o r \in Seq(S) /\ Len(l \o r) = Len(l) + Len(r)
         /\ \A j \in 1 .. (Len(l) + Len(r)) :
              (l \o r)[j] = IF j <= Len(l) THEN l[j] ELSE r[j - Len(l)]
OBVIOUS

LEMMA RemoveFacts ==
  ASSUME NEW S, NEW s \in Seq(S), NEW n \in 1 .. Len(s)
  PROVE  /\ RemoveAt(s, n) \in Seq(S)
         /\ \A j \in 1 .. Len(RemoveAt(s, n)) :
              \E m \in 1 .. Len(s) : RemoveAt(s, n)[j] = s[m]
<1> DEFINE l == SubSeq(s, 1, n - 1)
           r == SubSeq(s, n + 1, Len(s))
<1>1. /\ l \in Seq(S) /\ Len(l) = n - 1
      /\ \A j \in 1 .. (n - 1) : l[j] = s[j]
  OBVIOUS
<1>2. /\ r \in Seq(S) /\ Len(r) = Len(s) - n
      /\ \A j \in 1 .. (Len(s) - n) : r[j] = s[n + j]
  OBVIOUS
<1>3. RemoveAt(s, n) = l \o r
  BY DEF RemoveAt
<1> HIDE DEF l, r
<1>4. /\ l \o r \in Seq(S) /\ Len(l \o r) = Len(l) + Len(r)
      /\ \A j \in 1 .. (Len(l) + Len(r)) :
           (l \o r)[j] = IF j <= Len(l) THEN l[j] ELSE r[j - Len(l)]
  BY <1>1, <1>2, ConcatFacts
<1>5. ASSUME NEW j \in 1 .. Len(l \o r)
      PROVE  \E m \in 1 .. Len(s) : (l \o r)[j] = s[m]
  <2>1. CASE j <= n - 1
    BY <1>1, <1>4, <2>1
  <2>2. CASE j > n - 1
    <3>1. j - (n - 1) \in 1 .. (Len(s) - n) /\ n + (j - (n - 1)) \in 1 .. Len(s)
      BY <1>1, <1>2, <1>4, <2>2
    <3>2. (l \o r)[j] = r[j - (n - 1)]
      BY <1>1, <1>2, <1>4, <2>2
    <3> QED
      BY <1>2, <3>1, <3>2
  <2> QED
    BY <1>1, <1>2, <1>4, <2>1, <2>2
<1> QED
  BY <1>3, <1>4, <1>5

(* The two ways a chain of an array changes. *)
LEMMA PushedFacts ==
  ASSUME NEW b, Array(b), Size(b) > 0, InPlace(b), NEW e \in Entry
  PROVE  /\ Array(Pushed(b, e)) /\ Size(Pushed(b, e)) = Size(b)
         /\ InPlace(Pushed(b, e))
<1> DEFINE n == Size(b)
           i == hash_map_buckets_index(n, e.key)
           p == Pushed(b, e)
<1>1. n \in Nat \ {0} /\ DOMAIN b = 0 .. (n - 1)
  BY DEF Array
<1>2. e.key \in Keys
  BY DEF Entry
<1>3. i \in DOMAIN b
  BY <1>1, <1>2, IndexRange
<1>4. /\ DOMAIN p = DOMAIN b
      /\ p[i] = <<e>> \o b[i]
      /\ \A h \in DOMAIN b : h # i => p[h] = b[h]
  BY <1>3 DEF Pushed
<1>5. Size(p) = n
  BY <1>4 DEF Size
<1> HIDE DEF p, i, n
<1>6. b[i] \in Seq(Entry)
  BY <1>3 DEF Array
<1>7. Array(p)
  <2>1. p[i] \in Seq(Entry)
    BY <1>4, <1>6, PushFacts
  <2>2. \A h \in DOMAIN p : p[h] \in Seq(Entry)
    BY <1>4, <2>1 DEF Array
  <2> QED
    BY <1>1, <1>4, <1>5, <2>2 DEF Array
<1>8. InPlace(p)
  <2> SUFFICES ASSUME NEW h \in DOMAIN p, NEW j \in 1 .. Len(p[h])
               PROVE  hash_map_buckets_index(Size(p), p[h][j].key) = h
    BY DEF InPlace
  <2>1. CASE h # i
    BY <1>4, <1>5, <2>1 DEF InPlace, n
  <2>2. CASE h = i
    <3>1. \/ p[h][j] = e
          \/ \E m \in 1 .. Len(b[i]) : p[h][j] = b[i][m]
      BY <1>4, <1>6, <2>2, PushFacts
    <3> QED
      BY <1>3, <1>5, <2>2, <3>1 DEF InPlace, n, i
  <2> QED
    BY <2>1, <2>2
<1> QED
  BY <1>5, <1>7, <1>8 DEF p, n

LEMMA ShrunkFacts ==
  ASSUME NEW b, Array(b), InPlace(b), NEW i \in DOMAIN b, NEW s \in Seq(Entry),
         \A j \in 1 .. Len(s) : \E m \in 1 .. Len(b[i]) : s[j] = b[i][m]
  PROVE  /\ Array([b EXCEPT ![i] = s])
         /\ Size([b EXCEPT ![i] = s]) = Size(b)
         /\ InPlace([b EXCEPT ![i] = s])
<1> DEFINE p == [b EXCEPT ![i] = s]
<1>1. /\ DOMAIN p = DOMAIN b /\ p[i] = s
      /\ \A h \in DOMAIN b : h # i => p[h] = b[h]
  OBVIOUS
<1>2. Size(p) = Size(b)
  BY <1>1 DEF Size
<1> HIDE DEF p
<1>3. Array(p)
  BY <1>1, <1>2 DEF Array
<1>4. InPlace(p)
  <2> SUFFICES ASSUME NEW h \in DOMAIN p, NEW j \in 1 .. Len(p[h])
               PROVE  hash_map_buckets_index(Size(p), p[h][j].key) = h
    BY DEF InPlace
  <2>1. CASE h # i
    BY <1>1, <1>2, <2>1 DEF InPlace
  <2>2. CASE h = i
    BY <1>1, <1>2, <2>2 DEF InPlace
  <2> QED
    BY <2>1, <2>2
<1> QED
  BY <1>2, <1>3, <1>4 DEF p

-----------------------------------------------------------------------------
LEMMA MinInSet ==
  ASSUME NEW I \in SUBSET Nat, I # {}
  PROVE  Min(I) \in I
<1> DEFINE R == {p \in Nat \X Nat : p[1] < p[2]}
<1>1. IsWellFoundedOn(R, Nat)
  BY NatLessThanWellFounded DEF OpToRel
<1> HIDE DEF R
<1>2. PICK m \in I : \A j \in I : ~ (<<j, m>> \in R)
  BY <1>1, WFMin
<1>3. ASSUME NEW j \in I
      PROVE  m <= j
  <2>1. m \in Nat /\ j \in Nat
    OBVIOUS
  <2>2. j < m => <<j, m>> \in R
    BY <2>1 DEF R
  <2> QED
    BY <1>2, <2>1, <2>2
<1> QED
  BY <1>3 DEF Min

LEMMA InEntries ==
  ASSUME NEW b, Array(b), NEW e
  PROVE  e \in Entries(b) <=>
           \E i \in DOMAIN b : \E j \in 1 .. Len(b[i]) : e = b[i][j]
<1>1. \A i \in DOMAIN b : DOMAIN b[i] = 1 .. Len(b[i])
  BY DEF Array
<1> QED
  BY <1>1 DEF Entries, ToSet

(* In a map whose nodes are in place a lookup finds what there is to find.   *)
LEMMA LookupFinds ==
  ASSUME TypeOK, bucket_count > 0, InPlace(buckets), NEW k \in Keys
  PROVE  \/ /\ Lookup(k) = NULL
            /\ \A e \in Entries(buckets) : e.key # k
         \/ \E e \in Entries(buckets) : e.key = k /\ Lookup(k) = e.val
<1> DEFINE i == hash_map_buckets_index(bucket_count, k)
           I == {j \in 1 .. Len(Chain(k)) : Chain(k)[j].key = k}
<1>1. i \in DOMAIN buckets /\ Chain(k) = buckets[i] /\ Chain(k) \in Seq(Entry)
  <2>1. bucket_count \in Nat \ {0} /\ DOMAIN buckets = 0 .. (bucket_count - 1)
    BY DEF TypeOK, Array, bucket_count
  <2>2. i \in DOMAIN buckets
    BY <2>1, IndexRange
  <2> QED
    BY <2>2 DEF TypeOK, Array, Chain
<1>2. hash_map_get_node(k) = IF I # {} THEN Min(I) ELSE 0
  BY DEF hash_map_get_node, SelectInSeq
<1>3. Len(Chain(k)) \in Nat
  BY <1>1
<1>4. CASE I = {}
  <2>1. Lookup(k) = NULL
    BY <1>2, <1>4 DEF Lookup
  <2>2. ASSUME NEW e \in Entries(buckets), e.key = k
        PROVE  FALSE
    <3>1. PICK h \in DOMAIN buckets : \E j \in 1 .. Len(buckets[h]) : e = buckets[h][j]
      BY InEntries DEF TypeOK
    <3>2. PICK j \in 1 .. Len(buckets[h]) : e = buckets[h][j]
      BY <3>1
    <3>3. h = i
      BY <2>2, <3>2 DEF InPlace, bucket_count
    <3> QED
      BY <1>1, <1>4, <2>2, <3>2, <3>3
  <2> QED
    BY <2>1, <2>2
<1>5. CASE I # {}
  <2>1. Min(I) \in I
    <3>1. I \in SUBSET Nat
      BY <1>3
    <3> HIDE DEF I
    <3> QED
      BY <1>5, <3>1, MinInSet
  <2>2. /\ hash_map_get_node(k) = Min(I) /\ Min(I) # 0
        /\ Chain(k)[Min(I)].key = k
    BY <1>2, <1>3, <1>5, <2>1
  <2>3. Lookup(k) = Chain(k)[Min(I)].val
    BY <2>2 DEF Lookup
  <2>4. Chain(k)[Min(I)] \in Entries(buckets)
    <3>1. Min(I) \in 1 .. Len(buckets[i])
      BY <1>1, <2>1
    <3> QED
      BY <1>1, <3>1, InEntries DEF TypeOK
  <2> QED
    BY <2>2, <2>3, <2>4
<1> QED
  BY <1>4, <1>5

-----------------------------------------------------------------------------
LEMMA GrownPositive ==
  ASSUME NEW n \in Nat \ {0}
  PROVE  /\ 2 * n \in Nat \ {0}
         /\ (3 * n) \div 2 \in Nat \ {0}
         /\ (5 * n) \div 4 \in Nat \ {0}
         /\ (101 * n) \div 100 \in Nat \ {0}
OBVIOUS

(* Where a replacement of the array begins, the new one is empty. *)
LEMMA GrowToKeeps ==
  ASSUME MapInv, pc = "idle", NEW n \in Nat \ {0},
         NEW e \in Entry \cup {NoEntry} \cup [key : Keys, val : {NULL}],
         GrowTo(n, e), UNCHANGED <<buckets, count>>,
         given' \in 0 .. MaxInserts
  PROVE  MapInv'
<1>1. CASE pc' = "grow" /\ pending' = e /\ new_buckets' = Calloc(n) /\ new_count' = 0
  <2>1. Array(new_buckets)' /\ Size(new_buckets)' = n /\ InPlace(new_buckets)'
    BY <1>1, CallocFacts
  <2>2. Array(buckets)' /\ bucket_count' = bucket_count /\ InPlace(buckets)'
    BY DEF MapInv, TypeOK, bucket_count, InPlace, Array
  <2> QED
    BY <1>1, <2>1, <2>2 DEF MapInv, TypeOK
<1>2. CASE UNCHANGED <<pc, pending, new_buckets, new_count>>
  BY <1>2 DEF MapInv, TypeOK, Array, InPlace, bucket_count
<1> QED
  BY <1>1, <1>2 DEF GrowTo

(* The node that a lookup finds stands in the chain of its bucket. *)
LEMMA NodeInChain ==
  ASSUME TypeOK, bucket_count \in Nat \ {0}, NEW k \in Keys,
         hash_map_get_node(k) # 0
  PROVE  /\ hash_map_buckets_index(bucket_count, k) \in DOMAIN buckets
         /\ buckets[hash_map_buckets_index(bucket_count, k)] \in Seq(Entry)
         /\ hash_map_get_node(k)
              \in 1 .. Len(buckets[hash_map_buckets_index(bucket_count, k)])
<1> DEFINE i == hash_map_buckets_index(bucket_count, k)
           n == hash_map_get_node(k)
           I == {j \in 1 .. Len(Chain(k)) : Chain(k)[j].key = k}
<1>1. i \in DOMAIN buckets /\ buckets[i] \in Seq(Entry)
  <2>1. i \in 0 .. (bucket_count - 1)
    BY IndexRange
  <2> QED
    BY <2>1 DEF TypeOK, Array, bucket_count
<1>2. n = IF I # {} THEN Min(I) ELSE 0
  BY DEF hash_map_get_node, SelectInSeq
<1>3. I \in SUBSET Nat /\ I \subseteq 1 .. Len(Chain(k))
  BY <1>1
<1>4. I # {} => Min(I) \in I
  <2> HIDE DEF I
  <2> QED
    BY <1>3, MinInSet
<1> QED
  BY <1>1, <1>2, <1>3, <1>4 DEF Chain

(* What grow does to the chain it takes a node from. *)
LEMMA HeadAndTail ==
  ASSUME TypeOK, NEW i \in DOMAIN buckets, First(i)
  PROVE  /\ buckets[i] \in Seq(Entry) /\ buckets[i] # <<>>
         /\ Head(buckets[i]) \in Entry /\ Tail(buckets[i]) \in Seq(Entry)
         /\ 1 \in 1 .. Len(buckets[i]) /\ Head(buckets[i]) = buckets[i][1]
         /\ \A j \in 1 .. Len(Tail(buckets[i])) :
              \E m \in 1 .. Len(buckets[i]) : Tail(buckets[i])[j] = buckets[i][m]
<1>1. buckets[i] \in Seq(Entry) /\ buckets[i] # <<>>
  BY DEF TypeOK, Array, First
<1>2. /\ Head(buckets[i]) \in Entry /\ Tail(buckets[i]) \in Seq(Entry)
      /\ Len(Tail(buckets[i])) = Len(buckets[i]) - 1
      /\ \A j \in 1 .. Len(Tail(buckets[i])) : Tail(buckets[i])[j] = buckets[i][j + 1]
  BY <1>1
<1>3. Len(buckets[i]) \in Nat /\ Len(buckets[i]) # 0
  BY <1>1
<1> QED
  BY <1>1, <1>2, <1>3

THEOREM MapInvInit == Init => MapInv
<1> SUFFICES ASSUME Init PROVE MapInv
  OBVIOUS
<1>1. Array(NoBuckets) /\ InPlace(NoBuckets)
  <2>1. DOMAIN NoBuckets = 0 .. (0 - 1)
    BY DEF NoBuckets
  <2>2. Size(NoBuckets) = 0
    BY <2>1, SizeOf
  <2> QED
    BY <2>1, <2>2 DEF Array, InPlace, NoBuckets
<1>2. 0 \in 0 .. MaxInserts
  BY MapBounds
<1> QED
  BY <1>1, <1>2 DEF Init, MapInv, TypeOK

THEOREM MapInvStep == MapInv /\ [Next]_mapvars => MapInv'
<1> SUFFICES ASSUME MapInv, [Next]_mapvars PROVE MapInv'
  OBVIOUS
<1>a. TypeOK /\ InPlace(buckets) /\ InPlace(new_buckets)
  BY DEF MapInv
<1>b. pc \notin {"none", "deleted"} => bucket_count \in Nat \ {0}
  BY <1>a DEF TypeOK, Array, bucket_count
<1>c. /\ Array(NoBuckets) /\ InPlace(NoBuckets)
  <2>1. DOMAIN NoBuckets = 0 .. (0 - 1)
    BY DEF NoBuckets
  <2>2. Size(NoBuckets) = 0
    BY <2>1, SizeOf
  <2> QED
    BY <2>1, <2>2 DEF Array, InPlace, NoBuckets
<1>1. CASE revoltc_hash_map_new
  <2>1. PICK n \in Sizes : buckets' = Calloc(RoomFor(n))
    BY <1>1 DEF revoltc_hash_map_new
  <2>2. RoomFor(n) \in Nat \ {0}
    BY SizesAssumption DEF RoomFor
  <2>3. Array(buckets)' /\ bucket_count' = RoomFor(n) /\ InPlace(buckets)'
    BY <2>1, <2>2, CallocFacts DEF bucket_count
  <2>4. Array(new_buckets)' /\ InPlace(new_buckets)' /\ pc' = "idle"
    BY <1>1, <1>a DEF revoltc_hash_map_new, TypeOK, Array, InPlace
  <2> QED
    BY <1>1, <1>a, <2>2, <2>3, <2>4 DEF revoltc_hash_map_new, MapInv, TypeOK
<1>2. CASE revoltc_hash_map_get
  BY <1>2, <1>a DEF revoltc_hash_map_get, MapInv, TypeOK, Array, InPlace, bucket_count
<1>3. CASE revoltc_hash_map_insert
  <2>1. PICK k \in Keys, v \in {given + 1, NULL} :
          LET e == [key |-> k, val |-> v]
          IN IF Full THEN GrowTo(Grown, e)
             ELSE /\ pc' = "insert" /\ pending' = e
                  /\ UNCHANGED <<new_buckets, new_count, ret>>
    BY <1>3 DEF revoltc_hash_map_insert
  <2> DEFINE e == [key |-> k, val |-> v]
  <2>2. given' \in 0 .. MaxInserts /\ given + 1 \in Values
    BY <1>3, <1>a, MapBounds DEF revoltc_hash_map_insert, TypeOK, Values
  <2>3. e \in Entry \cup {NoEntry} \cup [key : Keys, val : {NULL}]
    BY <2>2 DEF Entry
  <2>4. e # NoEntry
    <3>1. CASE v = given + 1
      <4>1. v # NULL
        BY <2>2, <3>1, NullAssumption
      <4> QED
        BY <4>1 DEF NoEntry
    <3>2. CASE v = NULL
      <4>1. k # NULL
        BY NullAssumption
      <4> QED
        BY <4>1 DEF NoEntry
    <3> QED
      BY <3>1, <3>2
  <2>5. CASE Full
    <3>1. Grown \in Nat \ {0}
      BY <1>3, <1>b, GrownPositive DEF Grown, revoltc_hash_map_insert
    <3> QED
      BY <1>3, <2>1, <2>2, <2>3, <2>5, <3>1, GrowToKeeps DEF revoltc_hash_map_insert
  <2>6. CASE ~Full
    BY <1>3, <1>a, <2>1, <2>2, <2>3, <2>4, <2>6
    DEF revoltc_hash_map_insert, MapInv, TypeOK, Array, InPlace, bucket_count
  <2> QED
    BY <2>5, <2>6
<1>4. CASE revoltc_hash_map_grow
  <2>1. PICK n \in ((101 * bucket_count) \div 100) .. (11 * bucket_count) :
          GrowTo(n, NoEntry)
    BY <1>4 DEF revoltc_hash_map_grow
  <2>2. n \in Nat \ {0}
    <3>1. bucket_count \in Nat \ {0}
      BY <1>4, <1>b DEF revoltc_hash_map_grow
    <3>2. (101 * bucket_count) \div 100 \in Nat \ {0}
      BY <3>1, GrownPositive
    <3> QED
      BY <2>1, <3>1, <3>2
  <2>3. given' \in 0 .. MaxInserts
    BY <1>4, <1>a DEF revoltc_hash_map_grow, TypeOK
  <2> QED
    BY <1>4, <2>1, <2>2, <2>3, GrowToKeeps DEF revoltc_hash_map_grow
<1>5. CASE GrowMove
  <2>1. PICK i \in DOMAIN buckets :
          /\ First(i)
          /\ buckets' = [buckets EXCEPT ![i] = Tail(@)]
          /\ new_buckets' = Pushed(new_buckets, Head(buckets[i]))
    BY <1>5 DEF GrowMove
  <2>3. /\ Head(buckets[i]) \in Entry /\ Tail(buckets[i]) \in Seq(Entry)
        /\ \A j \in 1 .. Len(Tail(buckets[i])) :
             \E m \in 1 .. Len(buckets[i]) : Tail(buckets[i])[j] = buckets[i][m]
    BY <1>a, <2>1, HeadAndTail
  <2>4. Array(buckets)' /\ bucket_count' = bucket_count /\ InPlace(buckets)'
    BY <1>a, <2>1, <2>3, ShrunkFacts DEF TypeOK, bucket_count
  <2>5. /\ Array(new_buckets)' /\ Size(new_buckets)' = Size(new_buckets)
        /\ InPlace(new_buckets)'
    BY <1>5, <1>a, <2>1, <2>3, PushedFacts DEF TypeOK, GrowMove
  <2> QED
    BY <1>5, <1>a, <2>4, <2>5 DEF GrowMove, MapInv, TypeOK
<1>6. CASE GrowFails
  <2>1. PICK i \in DOMAIN buckets :
          /\ First(i)
          /\ buckets' = [buckets EXCEPT ![i] = Tail(@)]
    BY <1>6 DEF GrowFails
  <2>3. /\ Tail(buckets[i]) \in Seq(Entry)
        /\ \A j \in 1 .. Len(Tail(buckets[i])) :
             \E m \in 1 .. Len(buckets[i]) : Tail(buckets[i])[j] = buckets[i][m]
    BY <1>a, <2>1, HeadAndTail
  <2>4. Array(buckets)' /\ bucket_count' = bucket_count /\ InPlace(buckets)'
    BY <1>a, <2>1, <2>3, ShrunkFacts DEF TypeOK, bucket_count
  <2> QED
    BY <1>6, <1>a, <1>c, <2>4 DEF GrowFails, MapInv, TypeOK
<1>7. CASE GrowEnds
  <2>1. /\ Array(buckets)' /\ InPlace(buckets)' /\ bucket_count' > 0
        /\ Array(new_buckets)' /\ InPlace(new_buckets)'
    BY <1>7, <1>a, <1>c DEF GrowEnds, TypeOK, bucket_count, Array, InPlace
  <2> QED
    BY <1>7, <1>a, <2>1 DEF GrowEnds, MapInv, TypeOK
<1>8. CASE InsertEnds
  <2>1. Array(buckets)' /\ bucket_count' = bucket_count /\ InPlace(buckets)'
    <3>1. CASE UNCHANGED buckets
      BY <1>a, <3>1 DEF TypeOK, Array, InPlace, bucket_count
    <3>2. CASE pending.val # NULL /\ buckets' = Pushed(buckets, pending)
      <4>1. pending \in Entry
        BY <1>8, <1>a, <3>2 DEF InsertEnds, TypeOK, NoEntry
      <4> QED
        BY <1>8, <1>a, <1>b, <3>2, <4>1, PushedFacts DEF InsertEnds, TypeOK, bucket_count
    <3> QED
      BY <1>8, <3>1, <3>2 DEF InsertEnds
  <2>2. Array(new_buckets)' /\ InPlace(new_buckets)'
    BY <1>8, <1>a DEF InsertEnds, TypeOK, Array, InPlace
  <2> QED
    BY <1>8, <1>a, <2>1, <2>2 DEF InsertEnds, MapInv, TypeOK
<1>9. CASE revoltc_hash_map_remove
  <2>1. Array(buckets)' /\ bucket_count' = bucket_count /\ InPlace(buckets)'
    <3>1. CASE UNCHANGED buckets
      BY <1>a, <3>1 DEF TypeOK, Array, InPlace, bucket_count
    <3>2. CASE ~UNCHANGED buckets
      <4>1. PICK k \in Keys :
              LET i == hash_map_buckets_index(bucket_count, k)
                  n == hash_map_get_node(k)
              IN n # 0 /\ buckets' = [buckets EXCEPT ![i] = RemoveAt(@, n)]
        BY <1>9, <3>2 DEF revoltc_hash_map_remove
      <4> DEFINE i == hash_map_buckets_index(bucket_count, k)
                 n == hash_map_get_node(k)
      <4>2. i \in DOMAIN buckets /\ buckets[i] \in Seq(Entry)
        BY <1>9, <1>a, <1>b, <4>1, NodeInChain DEF revoltc_hash_map_remove
      <4>3. n \in 1 .. Len(buckets[i])
        BY <1>9, <1>a, <1>b, <4>1, NodeInChain DEF revoltc_hash_map_remove
      <4> HIDE DEF i, n
      <4>4. /\ RemoveAt(buckets[i], n) \in Seq(Entry)
            /\ \A j \in 1 .. Len(RemoveAt(buckets[i], n)) :
                 \E m \in 1 .. Len(buckets[i]) : RemoveAt(buckets[i], n)[j] = buckets[i][m]
        BY <4>2, <4>3, RemoveFacts
      <4>5. buckets' = [buckets EXCEPT ![i] = RemoveAt(buckets[i], n)]
        BY <4>1 DEF i, n
      <4> QED
        BY <1>a, <4>2, <4>4, <4>5, ShrunkFacts DEF TypeOK, bucket_count
    <3> QED
      BY <3>1, <3>2
  <2>2. Array(new_buckets)' /\ InPlace(new_buckets)'
    BY <1>9, <1>a DEF revoltc_hash_map_remove, TypeOK, Array, InPlace
  <2> QED
    BY <1>9, <1>a, <2>1, <2>2 DEF revoltc_hash_map_remove, MapInv, TypeOK
<1>10. CASE revoltc_hash_map_delete
  <2>1. Array(new_buckets)' /\ InPlace(new_buckets)'
    BY <1>10, <1>a DEF revoltc_hash_map_delete, TypeOK, Array, InPlace
  <2> QED
    BY <1>10, <1>a, <1>c, <2>1 DEF revoltc_hash_map_delete, MapInv, TypeOK
<1>11. CASE UNCHANGED mapvars
  BY <1>11, <1>a DEF mapvars, MapInv, TypeOK, Array, InPlace, bucket_count
<1> QED
  BY <1>1, <1>2, <1>3, <1>4, <1>5, <1>6, <1>7, <1>8, <1>9, <1>10, <1>11 DEF Next

(* Every variable of the map keeps its type; in particular there are always  *)
(* buckets to hash into, and grow only ever fills an array that has some.    *)
THEOREM MapTypeCorrect == Spec => []TypeOK
<1>1. MapInv => TypeOK
  BY DEF MapInv
<1> QED
  BY <1>1, MapInvInit, MapInvStep, PTL DEF Spec

(* A key is found exactly if it has an entry, with the value of one of its   *)
(* entries, however often the array was replaced and whether a replacement   *)
(* was given up half way.                                                    *)
THEOREM FindsKeyAlways == Spec => []FindsKey
<1>1. MapInv => FindsKey
  <2> SUFFICES ASSUME MapInv, pc = "idle", NEW k \in Keys
               PROVE  LET Of == {e \in Entries(buckets) : e.key = k}
                      IN IF Of = {} THEN Lookup(k) = NULL
                         ELSE \E e \in Of : Lookup(k) = e.val
    BY DEF FindsKey
  <2>1. bucket_count > 0
    BY DEF MapInv, TypeOK
  <2>2. \/ /\ Lookup(k) = NULL
           /\ \A e \in Entries(buckets) : e.key # k
        \/ \E e \in Entries(buckets) : e.key = k /\ Lookup(k) = e.val
    BY <2>1, LookupFinds DEF MapInv
  <2> QED
    BY <2>2
<1> QED
  BY <1>1, MapInvInit, MapInvStep, PTL DEF Spec

-----------------------------------------------------------------------------
(***************************************************************************)
(* Chains stay short on average.  Entries are at most as many as the count *)
(* says, but a bound on the count alone would not do: after a grow that    *)
(* failed it may be as far above three quarters as the failures left it.   *)
(* So the entries themselves are followed, those of both arrays while grow *)
(* moves them.                                                             *)
(***************************************************************************)
E == Entries(buckets)
N == Entries(new_buckets)

LoadInv ==
  /\ IsFiniteSet(E) /\ IsFiniteSet(N)
  /\ Cardinality(E) <= count /\ Cardinality(N) <= new_count
  /\ pc \notin {"none", "deleted"} => bucket_count >= 2
  /\ pc \in {"idle", "grow"} => 4 * Cardinality(E) <= 3 * bucket_count + 3
  /\ pc = "insert" => 4 * Cardinality(E) < 3 * bucket_count
  /\ pc = "grow" =>
       /\ Size(new_buckets) >= 2
       /\ 4 * Cardinality(E \cup N) <= 3 * Size(new_buckets) + 3
       /\ pending # NoEntry => 4 * Cardinality(E \cup N) < 3 * Size(new_buckets)

(* The sizes of the library, 16, 1024 and 16384, are far above these.  With  *)
(* an array that grows from 4 to 5 buckets the bound would not hold.         *)
GrowsByTwo == MinBuckets >= 2 /\ DoublesUpTo >= 3 /\ HalvesUpTo >= 7

LEMMA GrownByTwo ==
  ASSUME GrowsByTwo, bucket_count \in Nat, bucket_count >= 2
  PROVE  Grown \in Nat /\ Grown >= bucket_count + 2
<1> DEFINE n == bucket_count
<1>1. CASE n <= DoublesUpTo
  BY <1>1 DEF Grown
<1>2. CASE n > DoublesUpTo /\ n <= HalvesUpTo
  <2>1. n >= 4 /\ Grown = (3 * n) \div 2
    BY <1>2, SizesAssumption DEF Grown, GrowsByTwo
  <2> HIDE DEF n
  <2>2. n \in Nat
    BY DEF n
  <2>3. (3 * n) \div 2 >= n + 2 /\ (3 * n) \div 2 \in Nat
    BY <2>1, <2>2
  <2> QED
    BY <2>1, <2>3 DEF n
<1>3. CASE n > DoublesUpTo /\ n > HalvesUpTo
  <2>1. n >= 8 /\ Grown = (5 * n) \div 4
    BY <1>3, SizesAssumption DEF Grown, GrowsByTwo
  <2> HIDE DEF n
  <2>2. n \in Nat
    BY DEF n
  <2>3. (5 * n) \div 4 >= n + 2 /\ (5 * n) \div 4 \in Nat
    BY <2>1, <2>2
  <2> QED
    BY <2>1, <2>3 DEF n
<1> QED
  BY <1>1, <1>2, <1>3, SizesAssumption

LEMMA NoEntries ==
  /\ Entries(NoBuckets) = {}
  /\ \A n \in Nat : Entries(Calloc(n)) = {}
<1>1. \A i : ToSet(<<>>) = {}
  BY DEF ToSet
<1> QED
  BY <1>1 DEF Entries, NoBuckets, Calloc

(* A push adds one entry at most, and what is cut out of a chain adds none.  *)
LEMMA PushedEntries ==
  ASSUME NEW b, Array(b), Size(b) > 0, InPlace(b), NEW e \in Entry
  PROVE  Entries(Pushed(b, e)) \subseteq Entries(b) \cup {e}
<1> DEFINE i == hash_map_buckets_index(Size(b), e.key)
           p == Pushed(b, e)
<1>1. Array(p) /\ i \in DOMAIN b /\ b[i] \in Seq(Entry)
  <2>1. Size(b) \in Nat \ {0} /\ e.key \in Keys
    BY DEF Array, Entry
  <2>2. i \in DOMAIN b
    BY <2>1, IndexRange DEF Array
  <2> QED
    BY <2>2, PushedFacts DEF Array
<1>2. /\ DOMAIN p = DOMAIN b /\ p[i] = <<e>> \o b[i]
      /\ \A h \in DOMAIN b : h # i => p[h] = b[h]
  BY <1>1 DEF Pushed
<1> HIDE DEF p, i
<1>3. ASSUME NEW x \in Entries(p)
      PROVE  x \in Entries(b) \cup {e}
  <2>1. PICK h \in DOMAIN p : \E j \in 1 .. Len(p[h]) : x = p[h][j]
    BY <1>1, InEntries
  <2>2. PICK j \in 1 .. Len(p[h]) : x = p[h][j]
    BY <2>1
  <2>3. CASE h # i
    BY <1>2, <2>2, <2>3, InEntries
  <2>4. CASE h = i
    <3>1. x = e \/ \E m \in 1 .. Len(b[i]) : x = b[i][m]
      BY <1>1, <1>2, <2>2, <2>4, PushFacts
    <3> QED
      BY <1>1, <3>1, InEntries
  <2> QED
    BY <2>3, <2>4
<1> QED
  BY <1>3 DEF p

LEMMA ShrunkEntries ==
  ASSUME NEW b, Array(b), InPlace(b), NEW i \in DOMAIN b, NEW s \in Seq(Entry),
         \A j \in 1 .. Len(s) : \E m \in 1 .. Len(b[i]) : s[j] = b[i][m]
  PROVE  Entries([b EXCEPT ![i] = s]) \subseteq Entries(b)
<1> DEFINE p == [b EXCEPT ![i] = s]
<1>1. /\ DOMAIN p = DOMAIN b /\ p[i] = s
      /\ \A h \in DOMAIN b : h # i => p[h] = b[h]
  OBVIOUS
<1>2. Array(p)
  BY ShrunkFacts
<1> HIDE DEF p
<1>3. ASSUME NEW x \in Entries(p)
      PROVE  x \in Entries(b)
  <2>1. PICK h \in DOMAIN p : \E j \in 1 .. Len(p[h]) : x = p[h][j]
    BY <1>2, InEntries
  <2>2. PICK j \in 1 .. Len(p[h]) : x = p[h][j]
    BY <2>1
  <2> QED
    BY <1>1, <2>2, InEntries
<1> QED
  BY <1>3 DEF p

LEMMA Fewer ==
  ASSUME NEW S, IsFiniteSet(S), NEW T, T \subseteq S
  PROVE  /\ IsFiniteSet(T)
         /\ Cardinality(T) \in Nat /\ Cardinality(S) \in Nat
         /\ Cardinality(T) <= Cardinality(S)
  BY FS_Subset, FS_CardinalityType

LEMMA OneMore ==
  ASSUME NEW S, IsFiniteSet(S), NEW e, NEW T, T \subseteq S \cup {e}
  PROVE  /\ IsFiniteSet(T)
         /\ Cardinality(T) \in Nat /\ Cardinality(S) \in Nat
         /\ Cardinality(T) <= Cardinality(S) + 1
<1>1. /\ IsFiniteSet(S \cup {e}) /\ Cardinality(S) \in Nat
      /\ Cardinality(S \cup {e}) <= Cardinality(S) + 1
  BY FS_AddElement, FS_CardinalityType
<1> QED
  BY <1>1, Fewer

(* Where a replacement begins, all entries are those of the old array.       *)
LEMMA GrowToBounded ==
  ASSUME MapInv, LoadInv, pc = "idle", UNCHANGED <<buckets, count>>,
         NEW n \in Nat, n >= bucket_count, NEW e, GrowTo(n, e),
         e = NoEntry \/ n >= bucket_count + 2
  PROVE  LoadInv'
<1>1. Cardinality(E) \in Nat /\ bucket_count \in Nat /\ bucket_count >= 2
  BY FS_CardinalityType DEF LoadInv, MapInv, TypeOK, Array, bucket_count
<1>2. E' = E /\ bucket_count' = bucket_count
  BY DEF E, bucket_count
<1>3. CASE pc' = "grow" /\ pending' = e /\ new_buckets' = Calloc(n) /\ new_count' = 0
  <2>1. N' = {} /\ Size(new_buckets)' = n
    BY <1>3, NoEntries, CallocFacts DEF N
  <2>2. IsFiniteSet(N') /\ Cardinality(N') = 0 /\ (E \cup N)' = E
    BY <1>2, <2>1, FS_EmptySet
  <2>3. Size(new_buckets)' >= 2 /\ 4 * Cardinality(E) <= 3 * n + 3
    BY <1>1, <2>1 DEF LoadInv
  <2>4. e # NoEntry => 4 * Cardinality(E) < 3 * n
    BY <1>1 DEF LoadInv
  <2> QED
    BY <1>1, <1>2, <1>3, <2>1, <2>2, <2>3, <2>4 DEF LoadInv
<1>4. CASE UNCHANGED <<pc, pending, new_buckets, new_count>>
  <2>1. N' = N
    BY <1>4 DEF N
  <2> QED
    BY <1>2, <1>4, <2>1 DEF LoadInv
<1> QED
  BY <1>3, <1>4 DEF GrowTo

LEMMA LoadInvInit == Init => LoadInv
  BY NoEntries, FS_EmptySet DEF Init, LoadInv, E, N

LEMMA LoadInvStep ==
  ASSUME GrowsByTwo
  PROVE  MapInv /\ LoadInv /\ [Next]_mapvars => LoadInv'
<1> SUFFICES ASSUME MapInv, LoadInv, [Next]_mapvars PROVE LoadInv'
  OBVIOUS
<1>a. /\ TypeOK /\ InPlace(buckets) /\ InPlace(new_buckets)
      /\ bucket_count \in Nat /\ Size(new_buckets) \in Nat
      /\ count \in Nat /\ new_count \in Nat
      /\ Cardinality(E) \in Nat /\ Cardinality(N) \in Nat
  BY FS_CardinalityType DEF MapInv, LoadInv, TypeOK, Array, bucket_count
<1>b. IsFiniteSet(E \cup N) /\ Cardinality(E \cup N) \in Nat
  BY FS_Union, FS_CardinalityType DEF LoadInv
<1>1. CASE revoltc_hash_map_new
  <2>1. PICK n \in Sizes : buckets' = Calloc(RoomFor(n))
    BY <1>1 DEF revoltc_hash_map_new
  <2>2. RoomFor(n) \in Nat /\ RoomFor(n) >= 2
    BY SizesAssumption DEF RoomFor, GrowsByTwo
  <2>3. E' = {} /\ bucket_count' = RoomFor(n)
    BY <2>1, <2>2, NoEntries, CallocFacts DEF E, bucket_count
  <2>4. IsFiniteSet(E') /\ Cardinality(E') = 0
    BY <2>3, FS_EmptySet
  <2>5. N' = N /\ UNCHANGED <<count, new_count>> /\ pc' = "idle"
    BY <1>1 DEF revoltc_hash_map_new, N
  <2> QED
    BY <1>a, <2>2, <2>3, <2>4, <2>5 DEF LoadInv
<1>2. CASE revoltc_hash_map_get
  BY <1>2 DEF revoltc_hash_map_get, LoadInv, E, N, bucket_count
<1>3. CASE revoltc_hash_map_insert
  <2>1. PICK k \in Keys, v \in {given + 1, NULL} :
          LET e == [key |-> k, val |-> v]
          IN IF Full THEN GrowTo(Grown, e)
             ELSE /\ pc' = "insert" /\ pending' = e
                  /\ UNCHANGED <<new_buckets, new_count, ret>>
    BY <1>3 DEF revoltc_hash_map_insert
  <2>2. /\ pc = "idle" /\ UNCHANGED <<buckets, count>> /\ bucket_count >= 2
    BY <1>3 DEF revoltc_hash_map_insert, LoadInv
  <2>3. CASE Full
    <3>1. Grown \in Nat /\ Grown >= bucket_count + 2
      BY <1>a, <2>2, GrownByTwo
    <3>2. Grown >= bucket_count
      BY <1>a, <3>1
    <3> QED
      BY <2>1, <2>2, <2>3, <3>1, <3>2, GrowToBounded
  <2>4. CASE ~Full
    <3>1. 4 * Cardinality(E) < 3 * bucket_count
      BY <1>a, <2>4 DEF Full, LoadInv
    <3>2. E' = E /\ N' = N /\ bucket_count' = bucket_count
          /\ UNCHANGED <<count, new_count>> /\ pc' = "insert"
      BY <2>1, <2>2, <2>4 DEF E, N, bucket_count
    <3> QED
      BY <2>2, <3>1, <3>2 DEF LoadInv
  <2> QED
    BY <2>3, <2>4
<1>4. CASE revoltc_hash_map_grow
  <2>1. PICK n \in ((101 * bucket_count) \div 100) .. (11 * bucket_count) :
          GrowTo(n, NoEntry)
    BY <1>4 DEF revoltc_hash_map_grow
  <2>2. (101 * bucket_count) \div 100 \in Nat
        /\ (101 * bucket_count) \div 100 >= bucket_count
    BY <1>a
  <2>3. n \in Nat /\ n >= bucket_count
    BY <1>a, <2>2
  <2> QED
    BY <1>4, <2>1, <2>3, GrowToBounded DEF revoltc_hash_map_grow
<1>5. CASE GrowMove
  <2>1. PICK i \in DOMAIN buckets :
          /\ First(i)
          /\ buckets' = [buckets EXCEPT ![i] = Tail(@)]
          /\ new_buckets' = Pushed(new_buckets, Head(buckets[i]))
    BY <1>5 DEF GrowMove
  <2> DEFINE e == Head(buckets[i])
  <2>2. /\ e \in Entry /\ e \in E
        /\ Entries([buckets EXCEPT ![i] = Tail(buckets[i])]) \subseteq E
    <3>1. /\ e \in Entry /\ 1 \in 1 .. Len(buckets[i]) /\ e = buckets[i][1]
      BY <1>a, <2>1, HeadAndTail
    <3>2. e \in E
      BY <1>a, <3>1, InEntries DEF E, TypeOK
    <3>3. Entries([buckets EXCEPT ![i] = Tail(buckets[i])]) \subseteq E
      BY <1>a, <2>1, HeadAndTail, ShrunkEntries DEF E, TypeOK
    <3> QED
      BY <3>1, <3>2, <3>3
  <2>3. E' \subseteq E /\ bucket_count' = bucket_count
    BY <1>a, <2>1, <2>2, HeadAndTail, ShrunkFacts DEF E, TypeOK, bucket_count
  <2>4. /\ N' \subseteq N \cup {e}
        /\ Size(new_buckets)' = Size(new_buckets)
    BY <1>5, <1>a, <2>1, <2>2, PushedEntries, PushedFacts DEF N, TypeOK, GrowMove
  <2>5. E' \cup N' \subseteq E \cup N
    BY <2>2, <2>3, <2>4
  <2> HIDE DEF e, E, N
  <2>6. /\ IsFiniteSet(E') /\ Cardinality(E') \in Nat
        /\ Cardinality(E') <= Cardinality(E)
    BY <2>3, Fewer DEF LoadInv
  <2>7. /\ IsFiniteSet(N') /\ Cardinality(N') \in Nat
        /\ Cardinality(N') <= Cardinality(N) + 1
    BY <2>4, OneMore DEF LoadInv
  <2>8. /\ Cardinality(E' \cup N') \in Nat
        /\ Cardinality(E' \cup N') <= Cardinality(E \cup N)
    BY <1>b, <2>5, Fewer
  <2>9. /\ new_count' = new_count + 1
        /\ UNCHANGED <<count, pc, pending>> /\ pc = "grow"
    BY <1>5 DEF GrowMove
  <2> QED
    BY <1>a, <1>b, <2>3, <2>4, <2>6, <2>7, <2>8, <2>9 DEF LoadInv
<1>6. CASE GrowFails
  <2>1. PICK i \in DOMAIN buckets :
          First(i) /\ buckets' = [buckets EXCEPT ![i] = Tail(@)]
    BY <1>6 DEF GrowFails
  <2>2. E' \subseteq E /\ bucket_count' = bucket_count
    BY <1>a, <2>1, HeadAndTail, ShrunkEntries, ShrunkFacts DEF E, TypeOK, bucket_count
  <2>3. N' = {} /\ new_count' = 0 /\ UNCHANGED count /\ pc = "grow" /\ pc' = "idle"
    BY <1>6, NoEntries DEF GrowFails, N
  <2> HIDE DEF E, N
  <2>4. /\ IsFiniteSet(E') /\ Cardinality(E') \in Nat
        /\ Cardinality(E') <= Cardinality(E)
    BY <2>2, Fewer DEF LoadInv
  <2>5. IsFiniteSet(N') /\ Cardinality(N') = 0
    BY <2>3, FS_EmptySet
  <2> QED
    BY <1>a, <2>2, <2>3, <2>4, <2>5 DEF LoadInv
<1>7. CASE GrowEnds
  <2>1. /\ E' = N /\ bucket_count' = Size(new_buckets) /\ count' = new_count
        /\ N' = {} /\ new_count' = 0 /\ pc = "grow"
        /\ IF pending = NoEntry THEN pc' = "idle" ELSE pc' = "insert"
    BY <1>7, NoEntries DEF GrowEnds, E, N, bucket_count
  <2>2. E \cup N = N
    BY <1>7 DEF GrowEnds, E
  <2> HIDE DEF E, N
  <2>3. IsFiniteSet(N') /\ Cardinality(N') = 0
    BY <2>1, FS_EmptySet
  <2>4. /\ Cardinality(E \cup N) = Cardinality(N) /\ Size(new_buckets) >= 2
        /\ 4 * Cardinality(N) <= 3 * Size(new_buckets) + 3
        /\ pending # NoEntry => 4 * Cardinality(N) < 3 * Size(new_buckets)
    BY <2>1, <2>2 DEF LoadInv
  <2>5. /\ IsFiniteSet(E') /\ Cardinality(E') = Cardinality(N)
        /\ Cardinality(E') <= count' /\ bucket_count' >= 2
    BY <2>1, <2>4 DEF LoadInv
  <2>6. CASE pending = NoEntry
    BY <1>a, <2>1, <2>3, <2>4, <2>5, <2>6 DEF LoadInv
  <2>7. CASE pending # NoEntry
    BY <1>a, <2>1, <2>3, <2>4, <2>5, <2>7 DEF LoadInv
  <2> QED
    BY <2>6, <2>7
<1>8. CASE InsertEnds
  <2>1. /\ pc = "insert" /\ pc' = "idle" /\ count' = count + 1
        /\ N' = N /\ UNCHANGED new_count
    BY <1>8 DEF InsertEnds, N
  <2>2. E' \subseteq E \cup {pending} /\ bucket_count' = bucket_count
    <3>1. CASE UNCHANGED buckets
      BY <3>1 DEF E, bucket_count
    <3>2. CASE pending.val # NULL /\ buckets' = Pushed(buckets, pending)
      <4>1. pending \in Entry
        BY <1>8, <1>a, <3>2 DEF InsertEnds, TypeOK, NoEntry
      <4>2. bucket_count > 0
        BY <1>a, <2>1 DEF TypeOK
      <4> QED
        BY <1>a, <3>2, <4>1, <4>2, PushedEntries, PushedFacts DEF TypeOK, E, bucket_count
    <3> QED
      BY <1>8, <3>1, <3>2 DEF InsertEnds
  <2> HIDE DEF E, N
  <2>3. /\ IsFiniteSet(E') /\ Cardinality(E') \in Nat
        /\ Cardinality(E') <= Cardinality(E) + 1
    BY <2>2, OneMore DEF LoadInv
  <2> QED
    BY <1>a, <2>1, <2>2, <2>3 DEF LoadInv
<1>9. CASE revoltc_hash_map_remove
  <2>1. pc = "idle" /\ pc' = "idle" /\ UNCHANGED <<count, new_count>> /\ N' = N
    BY <1>9 DEF revoltc_hash_map_remove, N
  <2>2. E' \subseteq E /\ bucket_count' = bucket_count
    <3>1. CASE UNCHANGED buckets
      BY <3>1 DEF E, bucket_count
    <3>2. CASE ~UNCHANGED buckets
      <4>1. PICK k \in Keys :
              LET i == hash_map_buckets_index(bucket_count, k)
                  n == hash_map_get_node(k)
              IN n # 0 /\ buckets' = [buckets EXCEPT ![i] = RemoveAt(@, n)]
        BY <1>9, <3>2 DEF revoltc_hash_map_remove
      <4> DEFINE i == hash_map_buckets_index(bucket_count, k)
                 n == hash_map_get_node(k)
      <4>2. bucket_count \in Nat \ {0}
        BY <1>a, <2>1 DEF TypeOK
      <4>3. /\ i \in DOMAIN buckets /\ buckets[i] \in Seq(Entry)
            /\ n \in 1 .. Len(buckets[i])
        BY <1>a, <4>1, <4>2, NodeInChain
      <4>4. buckets' = [buckets EXCEPT ![i] = RemoveAt(buckets[i], n)]
        BY <4>1
      <4> HIDE DEF i, n
      <4>5. /\ RemoveAt(buckets[i], n) \in Seq(Entry)
            /\ \A j \in 1 .. Len(RemoveAt(buckets[i], n)) :
                 \E m \in 1 .. Len(buckets[i]) : RemoveAt(buckets[i], n)[j] = buckets[i][m]
        BY <4>3, RemoveFacts
      <4> QED
        BY <1>a, <4>3, <4>4, <4>5, ShrunkEntries, ShrunkFacts
        DEF TypeOK, E, bucket_count
    <3> QED
      BY <3>1, <3>2
  <2> HIDE DEF E, N
  <2>3. /\ IsFiniteSet(E') /\ Cardinality(E') \in Nat
        /\ Cardinality(E') <= Cardinality(E)
    BY <2>2, Fewer DEF LoadInv
  <2> QED
    BY <1>a, <2>1, <2>2, <2>3 DEF LoadInv
<1>10. CASE revoltc_hash_map_delete
  <2>1. /\ E' = {} /\ N' = N /\ pc' = "deleted" /\ UNCHANGED <<count, new_count>>
    BY <1>10, NoEntries DEF revoltc_hash_map_delete, E, N
  <2>2. IsFiniteSet(E') /\ Cardinality(E') = 0
    BY <2>1, FS_EmptySet
  <2> QED
    BY <1>a, <2>1, <2>2 DEF LoadInv
<1>11. CASE UNCHANGED mapvars
  BY <1>11 DEF mapvars, LoadInv, E, N, bucket_count
<1> QED
  BY <1>1, <1>2, <1>3, <1>4, <1>5, <1>6, <1>7, <1>8, <1>9, <1>10, <1>11 DEF Next

(* At most one entry is added to an array that is less than three quarters   *)
(* full, although the count drifts from the number of entries (insert        *)
(* 127-157), for growth by two buckets at least, as in the library.          *)
THEOREM LoadBoundedAlways ==
  ASSUME GrowsByTwo
  PROVE  Spec => []LoadBounded
<1>1. MapInv /\ LoadInv => LoadBounded
  <2> SUFFICES ASSUME MapInv, LoadInv, pc = "idle"
               PROVE  4 * (Cardinality(Entries(buckets)) - 1) <= 3 * bucket_count
    BY DEF LoadBounded
  <2>1. Cardinality(E) \in Nat /\ bucket_count \in Nat
    BY FS_CardinalityType DEF LoadInv, MapInv, TypeOK, Array, bucket_count
  <2> QED
    BY <2>1 DEF LoadInv, E
<1>2. MapInv /\ LoadInv /\ [Next]_mapvars => LoadInv'
  BY LoadInvStep
<1> QED
  BY <1>1, <1>2, LoadInvInit, MapInvInit, MapInvStep, PTL DEF Spec
-----------------------------------------------------------------------------
(***************************************************************************)
(* The map implements the Dictionary.  What one call takes out of the map  *)
(* has to be one entry exactly, so no entry may stand in two places: not   *)
(* twice in a chain, and not in both arrays while grow moves them.  An     *)
(* insertion keeps to that because the value it is given is a new one.     *)
(***************************************************************************)
Distinct(b) ==
  \A i \in DOMAIN b : \A m, n \in 1 .. Len(b[i]) : b[i][m] = b[i][n] => m = n

DictInv ==
  /\ Distinct(buckets) /\ Distinct(new_buckets)
  /\ E \cap N = {}
  /\ pc # "grow" => N = {}
  /\ pc = "none" => E = {}
  /\ \A e \in E \cup N : e.val <= given
  /\ pending.val # NULL => pending.val <= given /\ pending \notin E \cup N

LEMMA PushedExact ==
  ASSUME NEW b, Array(b), Size(b) > 0, InPlace(b), NEW e \in Entry
  PROVE  /\ Entries(Pushed(b, e)) = Entries(b) \cup {e}
         /\ Distinct(b) /\ e \notin Entries(b) => Distinct(Pushed(b, e))
<1> DEFINE i == hash_map_buckets_index(Size(b), e.key)
           p == Pushed(b, e)
<1>1. Array(p) /\ i \in DOMAIN b /\ b[i] \in Seq(Entry)
  <2>1. Size(b) \in Nat \ {0} /\ e.key \in Keys
    BY DEF Array, Entry
  <2>2. i \in DOMAIN b
    BY <2>1, IndexRange DEF Array
  <2> QED
    BY <2>2, PushedFacts DEF Array
<1>2. /\ DOMAIN p = DOMAIN b /\ p[i] = <<e>> \o b[i]
      /\ \A h \in DOMAIN b : h # i => p[h] = b[h]
  BY <1>1 DEF Pushed
<1>3. Entries(p) \subseteq Entries(b) \cup {e}
  BY PushedEntries
<1> HIDE DEF p, i
<1>4. /\ <<e>> \in Seq(Entry) /\ Len(<<e>>) = 1 /\ <<e>>[1] = e
  OBVIOUS
<1>5. /\ Len(p[i]) = 1 + Len(b[i]) /\ p[i][1] = e
      /\ \A j \in 1 .. Len(b[i]) : p[i][j + 1] = b[i][j]
      /\ \A j \in 2 .. Len(p[i]) : j - 1 \in 1 .. Len(b[i]) /\ p[i][j] = b[i][j - 1]
  <2>1. /\ Len(<<e>> \o b[i]) = 1 + Len(b[i])
        /\ \A j \in 1 .. (1 + Len(b[i])) :
             (<<e>> \o b[i])[j] = IF j <= 1 THEN <<e>>[j] ELSE b[i][j - 1]
    BY <1>1, <1>4, ConcatFacts
  <2>2. Len(b[i]) \in Nat
    BY <1>1
  <2> QED
    BY <1>2, <1>4, <2>1, <2>2
<1>6. ASSUME NEW x \in Entries(b) \cup {e}
      PROVE  x \in Entries(p)
  <2>1. CASE x = e
    <3>1. 1 \in 1 .. Len(p[i]) /\ i \in DOMAIN p
      BY <1>1, <1>2, <1>5
    <3> QED
      BY <1>1, <1>5, <2>1, <3>1, InEntries
  <2>2. CASE x \in Entries(b)
    <3>1. PICK h \in DOMAIN b : \E j \in 1 .. Len(b[h]) : x = b[h][j]
      BY <2>2, InEntries
    <3>2. PICK j \in 1 .. Len(b[h]) : x = b[h][j]
      BY <3>1
    <3>3. CASE h # i
      BY <1>1, <1>2, <3>2, <3>3, InEntries
    <3>4. CASE h = i
      <4>1. j + 1 \in 1 .. Len(p[i]) /\ x = p[i][j + 1]
        BY <1>1, <1>5, <3>2, <3>4
      <4> QED
        BY <1>1, <1>2, <4>1, InEntries
    <3> QED
      BY <3>3, <3>4
  <2> QED
    BY <2>1, <2>2
<1>7. ASSUME Distinct(b), e \notin Entries(b)
      PROVE  Distinct(p)
  <2> SUFFICES ASSUME NEW h \in DOMAIN p, NEW m \in 1 .. Len(p[h]),
                      NEW n \in 1 .. Len(p[h]), p[h][m] = p[h][n]
               PROVE  m = n
    BY DEF Distinct
  <2>1. CASE h # i
    BY <1>2, <1>7, <2>1 DEF Distinct
  <2>2. CASE h = i
    <3>1. \A j \in 1 .. Len(b[i]) : b[i][j] # e
      BY <1>1, <1>7, InEntries
    <3>2. m = 1 \/ m \in 2 .. Len(p[i])
      BY <2>2
    <3>3. n = 1 \/ n \in 2 .. Len(p[i])
      BY <2>2
    <3>4. CASE m \in 2 .. Len(p[i]) /\ n \in 2 .. Len(p[i])
      <4>1. b[i][m - 1] = b[i][n - 1]
        BY <1>5, <2>2, <3>4
      <4>2. m - 1 = n - 1
        BY <1>1, <1>5, <1>7, <3>4, <4>1 DEF Distinct
      <4> QED
        BY <4>2
    <3> QED
      BY <1>5, <2>2, <3>1, <3>2, <3>3, <3>4
  <2> QED
    BY <2>1, <2>2
<1> QED
  BY <1>3, <1>6, <1>7 DEF p

(* A chain without its n-th node. *)
Without(s, c, n) ==
  /\ s \in Seq(Entry) /\ Len(s) = Len(c) - 1
  /\ \A j \in 1 .. Len(s) : s[j] = IF j < n THEN c[j] ELSE c[j + 1]

LEMMA TailWithout ==
  ASSUME NEW c \in Seq(Entry), c # <<>>
  PROVE  Without(Tail(c), c, 1)
<1>1. /\ Tail(c) \in Seq(Entry) /\ Len(Tail(c)) = Len(c) - 1
      /\ \A j \in 1 .. Len(Tail(c)) : Tail(c)[j] = c[j + 1]
  OBVIOUS
<1> QED
  BY <1>1 DEF Without

LEMMA RemovedWithout ==
  ASSUME NEW c \in Seq(Entry), NEW n \in 1 .. Len(c)
  PROVE  Without(RemoveAt(c, n), c, n)
<1> DEFINE l == SubSeq(c, 1, n - 1)
           r == SubSeq(c, n + 1, Len(c))
<1>1. /\ l \in Seq(Entry) /\ Len(l) = n - 1
      /\ \A j \in 1 .. (n - 1) : l[j] = c[j]
  OBVIOUS
<1>2. /\ r \in Seq(Entry) /\ Len(r) = Len(c) - n
      /\ \A j \in 1 .. (Len(c) - n) : r[j] = c[n + j]
  OBVIOUS
<1>3. RemoveAt(c, n) = l \o r
  BY DEF RemoveAt
<1>0. Len(c) \in Nat /\ n \in Nat \ {0} /\ n <= Len(c)
  OBVIOUS
<1> HIDE DEF l, r
<1>4. /\ l \o r \in Seq(Entry) /\ Len(l \o r) = Len(l) + Len(r)
      /\ \A j \in 1 .. (Len(l) + Len(r)) :
           (l \o r)[j] = IF j <= Len(l) THEN l[j] ELSE r[j - Len(l)]
  BY <1>1, <1>2, ConcatFacts
<1>5. Len(l \o r) = Len(c) - 1
  BY <1>0, <1>1, <1>2, <1>4
<1>6. ASSUME NEW j \in 1 .. Len(l \o r)
      PROVE  (l \o r)[j] = IF j < n THEN c[j] ELSE c[j + 1]
  <2>1. CASE j < n
    BY <1>0, <1>1, <1>2, <1>4, <2>1
  <2>2. CASE ~(j < n)
    <3>1. j - (n - 1) \in 1 .. (Len(c) - n) /\ n + (j - (n - 1)) = j + 1
      BY <1>0, <1>5, <2>2
    <3>2. (l \o r)[j] = r[j - (n - 1)]
      BY <1>0, <1>1, <1>2, <1>4, <2>2
    <3> QED
      BY <1>2, <2>2, <3>1, <3>2
  <2> QED
    BY <2>1, <2>2
<1> QED
  BY <1>3, <1>4, <1>5, <1>6 DEF Without

(* What that makes of the nodes: the others are still there, each once. *)
OneLess(s, c, n) ==
  /\ \A j \in 1 .. Len(s) : \E m \in 1 .. Len(c) : m # n /\ s[j] = c[m]
  /\ \A m \in 1 .. Len(c) : m # n => \E j \in 1 .. Len(s) : s[j] = c[m]
  /\ (\A l, m \in 1 .. Len(c) : c[l] = c[m] => l = m)
       => \A l, m \in 1 .. Len(s) : s[l] = s[m] => l = m

LEMMA WithoutFacts ==
  ASSUME NEW c \in Seq(Entry), NEW n \in 1 .. Len(c), NEW s, Without(s, c, n)
  PROVE  OneLess(s, c, n)
<1>1. /\ Len(c) \in Nat /\ n \in Nat \ {0} /\ n <= Len(c) /\ Len(s) = Len(c) - 1
      /\ \A j \in 1 .. Len(s) : s[j] = IF j < n THEN c[j] ELSE c[j + 1]
  BY DEF Without
<1>2. ASSUME NEW j \in 1 .. Len(s)
      PROVE  \E m \in 1 .. Len(c) : m # n /\ s[j] = c[m]
  <2>1. CASE j < n
    <3>1. j \in 1 .. Len(c) /\ j # n /\ s[j] = c[j]
      BY <1>1, <2>1
    <3> QED
      BY <3>1
  <2>2. CASE ~(j < n)
    <3>1. j + 1 \in 1 .. Len(c) /\ j + 1 # n /\ s[j] = c[j + 1]
      BY <1>1, <2>2
    <3> QED
      BY <3>1
  <2> QED
    BY <2>1, <2>2
<1>3. ASSUME NEW m \in 1 .. Len(c), m # n
      PROVE  \E j \in 1 .. Len(s) : s[j] = c[m]
  <2>1. CASE m < n
    <3>1. m \in 1 .. Len(s) /\ s[m] = c[m]
      BY <1>1, <2>1
    <3> QED
      BY <3>1
  <2>2. CASE ~(m < n)
    <3>1. m - 1 \in 1 .. Len(s) /\ ~(m - 1 < n) /\ (m - 1) + 1 = m
      BY <1>1, <1>3, <2>2
    <3>2. s[m - 1] = c[m]
      BY <1>1, <3>1
    <3> QED
      BY <3>1, <3>2
  <2> QED
    BY <2>1, <2>2
<1>4. ASSUME \A l, m \in 1 .. Len(c) : c[l] = c[m] => l = m,
             NEW l \in 1 .. Len(s), NEW m \in 1 .. Len(s), s[l] = s[m]
      PROVE  l = m
  <2> DEFINE P(j) == IF j < n THEN j ELSE j + 1
  <2>1. P(l) \in 1 .. Len(c) /\ P(m) \in 1 .. Len(c)
    BY <1>1
  <2>2. s[l] = c[P(l)] /\ s[m] = c[P(m)]
    BY <1>1
  <2>3. P(l) = P(m)
    <3> HIDE DEF P
    <3> QED
      BY <1>4, <2>1, <2>2
  <2> QED
    BY <1>1, <2>3
<1> QED
  BY <1>2, <1>3, <1>4 DEF OneLess

(* What is cut out of a chain is one entry of the map, and only that. *)
LEMMA CutExact ==
  ASSUME NEW b, Array(b), InPlace(b), Distinct(b), NEW i \in DOMAIN b,
         NEW n \in 1 .. Len(b[i]), NEW s, Without(s, b[i], n)
  PROVE  /\ b[i][n] \in Entries(b)
         /\ Entries([b EXCEPT ![i] = s]) = Entries(b) \ {b[i][n]}
         /\ Distinct([b EXCEPT ![i] = s])
<1> DEFINE p == [b EXCEPT ![i] = s]
           e == b[i][n]
<1>1. /\ DOMAIN p = DOMAIN b /\ p[i] = s
      /\ \A h \in DOMAIN b : h # i => p[h] = b[h]
  OBVIOUS
<1>2. b[i] \in Seq(Entry) /\ s \in Seq(Entry)
  BY DEF Array, Without
<1>3. /\ \A j \in 1 .. Len(s) : \E m \in 1 .. Len(b[i]) : m # n /\ s[j] = b[i][m]
      /\ \A m \in 1 .. Len(b[i]) : m # n => \E j \in 1 .. Len(s) : s[j] = b[i][m]
      /\ (\A l, m \in 1 .. Len(b[i]) : b[i][l] = b[i][m] => l = m)
           => \A l, m \in 1 .. Len(s) : s[l] = s[m] => l = m
  <2>1. OneLess(s, b[i], n)
    BY <1>2, WithoutFacts
  <2> QED
    BY <2>1 DEF OneLess
<1>4. Array(p)
  BY <1>2, <1>3, ShrunkFacts
<1>5. e \in Entries(b)
  BY InEntries
<1> HIDE DEF p, e
<1>6. ASSUME NEW x \in Entries(p)
      PROVE  x \in Entries(b) \ {e}
  <2>1. PICK h \in DOMAIN p : \E j \in 1 .. Len(p[h]) : x = p[h][j]
    BY <1>4, InEntries
  <2>2. PICK j \in 1 .. Len(p[h]) : x = p[h][j]
    BY <2>1
  <2>3. CASE h # i
    <3>1. h \in DOMAIN b /\ j \in 1 .. Len(b[h]) /\ x = b[h][j]
      BY <1>1, <2>2, <2>3
    <3>2. x \in Entries(b)
      BY <3>1, InEntries
    <3>3. x # e
      BY <2>3, <3>1 DEF InPlace, e
    <3> QED
      BY <3>2, <3>3
  <2>4. CASE h = i
    <3>1. PICK m \in 1 .. Len(b[i]) : m # n /\ x = b[i][m]
      BY <1>1, <1>3, <2>2, <2>4
    <3>2. x \in Entries(b)
      BY <3>1, InEntries
    <3>3. x # e
      BY <3>1 DEF Distinct, e
    <3> QED
      BY <3>2, <3>3
  <2> QED
    BY <2>3, <2>4
<1>7. ASSUME NEW x \in Entries(b), x # e
      PROVE  x \in Entries(p)
  <2>1. PICK h \in DOMAIN b : \E j \in 1 .. Len(b[h]) : x = b[h][j]
    BY InEntries
  <2>2. PICK j \in 1 .. Len(b[h]) : x = b[h][j]
    BY <2>1
  <2>3. CASE h # i
    BY <1>1, <1>4, <2>2, <2>3, InEntries
  <2>4. CASE h = i
    <3>1. j # n
      BY <1>7, <2>2, <2>4 DEF e
    <3>2. \E m \in 1 .. Len(s) : s[m] = x
      BY <1>3, <2>2, <2>4, <3>1
    <3> QED
      BY <1>1, <1>4, <3>2, InEntries
  <2> QED
    BY <2>3, <2>4
<1>8. Distinct(p)
  <2> SUFFICES ASSUME NEW h \in DOMAIN p, NEW l \in 1 .. Len(p[h]),
                      NEW m \in 1 .. Len(p[h]), p[h][l] = p[h][m]
               PROVE  l = m
    BY DEF Distinct
  <2>1. CASE h # i
    BY <1>1, <2>1 DEF Distinct
  <2>2. CASE h = i
    <3>1. \A l_1, m_1 \in 1 .. Len(b[i]) : b[i][l_1] = b[i][m_1] => l_1 = m_1
      BY DEF Distinct
    <3> QED
      BY <1>1, <1>3, <2>2, <3>1
  <2> QED
    BY <2>1, <2>2
<1> QED
  BY <1>5, <1>6, <1>7, <1>8 DEF p, e

LEMMA EntriesTyped ==
  ASSUME NEW b, Array(b)
  PROVE  Entries(b) \subseteq Entry
<1>1. ASSUME NEW e \in Entries(b)
      PROVE  e \in Entry
  <2>1. PICK i \in DOMAIN b : \E j \in 1 .. Len(b[i]) : e = b[i][j]
    BY InEntries
  <2>2. b[i] \in Seq(Entry)
    BY DEF Array
  <2> QED
    BY <2>1, <2>2
<1> QED
  BY <1>1

(* The node grow takes, whether it can move it or not. *)
LEMMA TakenExact ==
  ASSUME TypeOK, InPlace(buckets), Distinct(buckets),
         NEW i \in DOMAIN buckets, First(i),
         buckets' = [buckets EXCEPT ![i] = Tail(@)]
  PROVE  /\ Head(buckets[i]) \in E /\ Head(buckets[i]) \in Entry
         /\ E' = E \ {Head(buckets[i])} /\ Distinct(buckets')
<1>1. /\ buckets[i] \in Seq(Entry) /\ buckets[i] # <<>>
      /\ 1 \in 1 .. Len(buckets[i]) /\ Head(buckets[i]) = buckets[i][1]
      /\ Head(buckets[i]) \in Entry
  BY HeadAndTail
<1>2. Without(Tail(buckets[i]), buckets[i], 1)
  BY <1>1, TailWithout
<1>3. buckets' = [buckets EXCEPT ![i] = Tail(buckets[i])]
  OBVIOUS
<1>4. /\ buckets[i][1] \in Entries(buckets)
      /\ Entries([buckets EXCEPT ![i] = Tail(buckets[i])])
           = Entries(buckets) \ {buckets[i][1]}
      /\ Distinct([buckets EXCEPT ![i] = Tail(buckets[i])])
  BY <1>1, <1>2, CutExact DEF TypeOK
<1> QED
  BY <1>1, <1>3, <1>4 DEF E

(* The entry remove takes is one of the key it was asked for. *)
LEMMA RemovedExact ==
  ASSUME TypeOK, bucket_count > 0, InPlace(buckets), Distinct(buckets),
         NEW k \in Keys, hash_map_get_node(k) # 0,
         buckets' = [buckets EXCEPT ![hash_map_buckets_index(bucket_count, k)] =
                       RemoveAt(@, hash_map_get_node(k))]
  PROVE  /\ Distinct(buckets')
         /\ \E e \in E : e.key = k /\ Lookup(k) = e.val /\ E' = E \ {e}
<1> DEFINE i == hash_map_buckets_index(bucket_count, k)
           n == hash_map_get_node(k)
           I == {j \in 1 .. Len(Chain(k)) : Chain(k)[j].key = k}
<1>1. bucket_count \in Nat \ {0}
  BY DEF TypeOK, Array, bucket_count
<1>2. i \in DOMAIN buckets /\ buckets[i] \in Seq(Entry) /\ n \in 1 .. Len(buckets[i])
  BY <1>1, NodeInChain
<1>3. Lookup(k) = buckets[i][n].val
  BY DEF Lookup, Chain
<1>4. buckets[i][n].key = k
  <2>1. n = IF I # {} THEN Min(I) ELSE 0
    BY DEF hash_map_get_node, SelectInSeq
  <2>2. I \in SUBSET Nat
    BY <1>2 DEF Chain
  <2>3. n \in I
    <3> HIDE DEF I, n
    <3> QED
      BY <2>1, <2>2, MinInSet DEF n
  <2> QED
    BY <2>3 DEF Chain
<1>5. buckets' = [buckets EXCEPT ![i] = RemoveAt(buckets[i], n)]
  OBVIOUS
<1> HIDE DEF i, n, I
<1>6. Without(RemoveAt(buckets[i], n), buckets[i], n)
  BY <1>2, RemovedWithout
<1>7. /\ buckets[i][n] \in Entries(buckets)
      /\ Entries([buckets EXCEPT ![i] = RemoveAt(buckets[i], n)])
           = Entries(buckets) \ {buckets[i][n]}
      /\ Distinct([buckets EXCEPT ![i] = RemoveAt(buckets[i], n)])
  BY <1>2, <1>6, CutExact DEF TypeOK
<1> QED
  BY <1>3, <1>4, <1>5, <1>7 DEF E

LEMMA DictInvInit == Init => DictInv
  BY NoEntries, NullAssumption DEF Init, DictInv, E, N, Distinct, NoBuckets, NoEntry

(* Where a replacement begins, or cannot begin, the entries stay as they are. *)
LEMMA GrowToSame ==
  ASSUME TypeOK, DictInv, pc = "idle", NEW n \in Nat, NEW e, GrowTo(n, e),
         UNCHANGED buckets
  PROVE  /\ E' = E /\ N = {} /\ N' = {}
         /\ Distinct(buckets') /\ Distinct(new_buckets')
         /\ pc' # "none" /\ (pending' = e \/ pending' = pending)
         /\ ret' = ret \/ ret' = Answer("NOMEM", NULL)
<1>1. E' = E /\ N = {} /\ Distinct(buckets')
  BY DEF E, DictInv
<1>2. CASE pc' = "grow" /\ pending' = e /\ new_buckets' = Calloc(n) /\ UNCHANGED ret
  <2>1. N' = {} /\ Distinct(new_buckets')
    BY <1>2, NoEntries DEF N, Distinct, Calloc
  <2> QED
    BY <1>1, <1>2, <2>1
<1>3. CASE UNCHANGED <<pc, pending, new_buckets>> /\ ret' = Answer("NOMEM", NULL)
  BY <1>1, <1>3 DEF N, DictInv
<1> QED
  BY <1>2, <1>3 DEF GrowTo

DictVars == <<E \cup N, ret>>

LEMMA FailsAsDict ==
  ASSUME NEW r \in {"INVAL", "NOMEM"}, (E \cup N)' \subseteq E \cup N,
         ret' = Answer(r, NULL)
  PROVE  Dict!DictNext
<1>1. Dict!InsertFails(r)
  BY DEF Dict!InsertFails, Dict!Answer, Answer, E, N
<1> QED
  BY <1>1 DEF Dict!DictNext

LEMMA DictStep ==
  MapInv /\ DictInv /\ [Next]_mapvars => DictInv' /\ [Dict!DictNext]_DictVars
<1> SUFFICES ASSUME MapInv, DictInv, [Next]_mapvars
             PROVE  DictInv' /\ [Dict!DictNext]_DictVars
  OBVIOUS
<1>a. /\ TypeOK /\ InPlace(buckets) /\ InPlace(new_buckets)
      /\ Distinct(buckets) /\ Distinct(new_buckets)
      /\ given \in Nat
  BY DEF MapInv, DictInv, TypeOK
<1>b. E \subseteq Entry /\ N \subseteq Entry
  BY <1>a, EntriesTyped DEF TypeOK, E, N
<1>c. /\ Distinct(NoBuckets) /\ Entries(NoBuckets) = {}
  BY NoEntries DEF Distinct, NoBuckets
<1>d. \A e \in Entry : e.val \in Nat /\ e.val # NULL
  BY NullAssumption, MapBounds DEF Entry, Values
<1>e. pending.val # NULL => pending \in Entry
  BY <1>a DEF TypeOK, NoEntry
<1>f. NoEntry.val = NULL
  BY DEF NoEntry
<1>1. CASE revoltc_hash_map_new
  <2>1. PICK n \in Sizes : buckets' = Calloc(RoomFor(n))
    BY <1>1 DEF revoltc_hash_map_new
  <2>2. RoomFor(n) \in Nat
    BY SizesAssumption DEF RoomFor
  <2>3. E = {} /\ E' = {} /\ Distinct(buckets')
    <3>1. E = {}
      BY <1>1 DEF revoltc_hash_map_new, DictInv
    <3>2. E' = {}
      BY <2>1, <2>2, NoEntries DEF E
    <3>3. Distinct(Calloc(RoomFor(n)))
      BY <2>2 DEF Distinct, Calloc
    <3> QED
      BY <2>1, <3>1, <3>2, <3>3
  <2>4. N' = N /\ N = {} /\ UNCHANGED <<new_buckets, given, pending, ret>> /\ pc' = "idle"
    BY <1>1 DEF revoltc_hash_map_new, DictInv, N
  <2> QED
    BY <1>a, <2>3, <2>4 DEF DictInv, DictVars
<1>2. CASE revoltc_hash_map_get
  <2>1. E' = E /\ N' = N /\ N = {} /\ pc = "idle"
        /\ UNCHANGED <<buckets, new_buckets, given, pending, pc>>
    BY <1>2 DEF revoltc_hash_map_get, DictInv, E, N
  <2>2. DictInv'
    BY <2>1 DEF DictInv
  <2>3. PICK k \in Keys : ret' = Answer("OK", Lookup(k))
    BY <1>2 DEF revoltc_hash_map_get
  <2>4. \/ /\ Lookup(k) = NULL
           /\ \A e \in E : e.key # k
        \/ \E e \in E : e.key = k /\ Lookup(k) = e.val
    BY <1>a, <2>1, LookupFinds DEF TypeOK, E
  <2>5. Dict!Get(k)
    BY <2>1, <2>3, <2>4 DEF Dict!Get, Dict!Of, Dict!Answer, Answer, E, N
  <2>6. Dict!DictNext
    BY <2>5 DEF Dict!DictNext
  <2> QED
    BY <2>2, <2>6
<1>3. CASE revoltc_hash_map_insert
  <2>1. PICK k \in Keys, v \in {given + 1, NULL} :
          LET e == [key |-> k, val |-> v]
          IN IF Full THEN GrowTo(Grown, e)
             ELSE /\ pc' = "insert" /\ pending' = e
                  /\ UNCHANGED <<new_buckets, new_count, ret>>
    BY <1>3 DEF revoltc_hash_map_insert
  <2> DEFINE e == [key |-> k, val |-> v]
  <2>2. pc = "idle" /\ given' = given + 1 /\ UNCHANGED buckets
    BY <1>3 DEF revoltc_hash_map_insert
  <2>3. /\ E' = E /\ N = {} /\ N' = {}
        /\ Distinct(buckets') /\ Distinct(new_buckets')
        /\ pc' # "none" /\ (pending' = e \/ pending' = pending)
        /\ ret' = ret \/ ret' = Answer("NOMEM", NULL)
    <3>1. CASE Full
      <4>1. GrowTo(Grown, e)
        BY <2>1, <3>1
      <4>2. Grown \in Nat
        <5>1. bucket_count \in Nat
          BY <1>a DEF TypeOK, Array, bucket_count
        <5> QED
          BY <5>1 DEF Grown
      <4> HIDE DEF e
      <4> QED
        BY <1>a, <2>2, <4>1, <4>2, GrowToSame
    <3>2. CASE ~Full
      <4>1. UNCHANGED <<buckets, new_buckets, ret>> /\ pc' = "insert" /\ pending' = e
        BY <2>1, <2>2, <3>2
      <4> HIDE DEF e
      <4> QED
        BY <1>a, <2>2, <4>1 DEF E, N, DictInv
    <3> QED
      BY <3>1, <3>2
  <2>4. \A x \in E : x.val <= given + 1 /\ x.val # given + 1
    BY <1>a, <1>b, <1>d DEF DictInv
  <2>5. pending'.val # NULL => pending'.val <= given + 1 /\ pending' \notin E
    <3>1. CASE pending' = e
      <4>1. e.val = given + 1 \/ e.val = NULL
        OBVIOUS
      <4> HIDE DEF e
      <4> QED
        BY <1>a, <2>4, <3>1, <4>1
    <3>2. CASE pending' = pending
      BY <1>a, <1>d, <1>e, <3>2 DEF DictInv
    <3> QED
      BY <2>3, <3>1, <3>2
  <2>6. DictInv'
    <3> HIDE DEF e
    <3>2. \A x \in (E \cup N)' : x.val <= given'
      BY <2>2, <2>3, <2>4
    <3>3. pending'.val # NULL => pending'.val <= given' /\ pending' \notin (E \cup N)'
      BY <2>2, <2>3, <2>5
    <3> QED
      BY <2>3, <3>2, <3>3 DEF DictInv
  <2>7. CASE ret' = ret
    BY <2>3, <2>6, <2>7 DEF DictVars
  <2>8. CASE ret' = Answer("NOMEM", NULL)
    <3>1. (E \cup N)' \subseteq E \cup N
      BY <2>3
    <3> QED
      BY <2>6, <2>8, <3>1, FailsAsDict
  <2> QED
    BY <2>3, <2>6, <2>7, <2>8
<1>4. CASE revoltc_hash_map_grow
  <2>1. PICK n \in ((101 * bucket_count) \div 100) .. (11 * bucket_count) :
          GrowTo(n, NoEntry)
    BY <1>4 DEF revoltc_hash_map_grow
  <2>2. pc = "idle" /\ given' = given /\ UNCHANGED buckets
    BY <1>4 DEF revoltc_hash_map_grow
  <2>3. n \in Nat
    <3>1. bucket_count \in Nat
      BY <1>a DEF TypeOK, Array, bucket_count
    <3>2. (101 * bucket_count) \div 100 \in Nat
      BY <3>1
    <3> QED
      BY <3>1, <3>2
  <2>4. /\ E' = E /\ N = {} /\ N' = {}
        /\ Distinct(buckets') /\ Distinct(new_buckets')
        /\ pc' # "none" /\ (pending' = NoEntry \/ pending' = pending)
        /\ ret' = ret \/ ret' = Answer("NOMEM", NULL)
    BY <1>a, <2>1, <2>2, <2>3, GrowToSame
  <2>5. DictInv'
    BY <1>f, <2>2, <2>4 DEF DictInv
  <2>6. CASE ret' = ret
    BY <2>4, <2>5, <2>6 DEF DictVars
  <2>7. CASE ret' = Answer("NOMEM", NULL)
    <3>1. (E \cup N)' \subseteq E \cup N
      BY <2>4
    <3> QED
      BY <2>5, <2>7, <3>1, FailsAsDict
  <2> QED
    BY <2>4, <2>6, <2>7
<1>5. CASE GrowMove
  <2>1. PICK i \in DOMAIN buckets :
          /\ First(i)
          /\ buckets' = [buckets EXCEPT ![i] = Tail(@)]
          /\ new_buckets' = Pushed(new_buckets, Head(buckets[i]))
    BY <1>5 DEF GrowMove
  <2> DEFINE e == Head(buckets[i])
  <2>2. e \in E /\ e \in Entry /\ E' = E \ {e} /\ Distinct(buckets')
    BY <1>a, <2>1, TakenExact
  <2>3. /\ pc = "grow" /\ UNCHANGED <<pc, pending, given, ret>>
        /\ Array(new_buckets) /\ Size(new_buckets) > 0
    BY <1>5, <1>a DEF GrowMove, TypeOK
  <2>4. e \notin N
    BY <2>2 DEF DictInv
  <2>5. N' = N \cup {e} /\ Distinct(new_buckets')
    BY <1>a, <2>1, <2>2, <2>3, <2>4, PushedExact DEF N
  <2> HIDE DEF e
  <2>6. (E \cup N)' = E \cup N /\ E' \cap N' = {}
    BY <2>2, <2>5 DEF DictInv
  <2>7. DictInv'
    BY <2>2, <2>3, <2>5, <2>6 DEF DictInv
  <2> QED
    BY <2>3, <2>6, <2>7 DEF DictVars
<1>6. CASE GrowFails
  <2>1. PICK i \in DOMAIN buckets :
          First(i) /\ buckets' = [buckets EXCEPT ![i] = Tail(@)]
    BY <1>6 DEF GrowFails
  <2>2. E' \subseteq E /\ Distinct(buckets')
    BY <1>a, <2>1, TakenExact
  <2>3. /\ N' = {} /\ Distinct(new_buckets') /\ pc' = "idle" /\ given' = given
        /\ pending' = NoEntry /\ ret' = Answer("NOMEM", NULL)
    BY <1>6, <1>c DEF GrowFails, N
  <2>4. DictInv'
    BY <1>f, <2>2, <2>3 DEF DictInv
  <2>5. (E \cup N)' \subseteq E \cup N
    BY <2>2, <2>3
  <2> QED
    BY <2>3, <2>4, <2>5, FailsAsDict
<1>7. CASE GrowEnds
  <2>1. /\ E = {} /\ E' = N /\ N' = {}
        /\ Distinct(buckets') /\ Distinct(new_buckets')
        /\ UNCHANGED <<pending, given>> /\ pc' \in {"idle", "insert"}
        /\ ret' = ret \/ ret' = Answer("OK", NULL)
    BY <1>7, <1>a, <1>c DEF GrowEnds, E, N
  <2>2. DictInv'
    BY <2>1 DEF DictInv
  <2>3. (E \cup N)' = E \cup N
    BY <2>1
  <2>4. CASE ret' = Answer("OK", NULL)
    <3>1. Dict!Enlarge
      BY <2>3, <2>4 DEF Dict!Enlarge, Dict!Answer, Answer, E, N
    <3> QED
      BY <2>2, <3>1 DEF Dict!DictNext
  <2> QED
    BY <2>1, <2>2, <2>3, <2>4 DEF DictVars
<1>8. CASE InsertEnds
  <2>1. /\ pc = "insert" /\ pc' = "idle" /\ N = {} /\ N' = {}
        /\ UNCHANGED <<new_buckets, given>> /\ pending' = NoEntry
    BY <1>8 DEF InsertEnds, N, DictInv
  <2>2. CASE /\ pending.val # NULL /\ ret' = Answer("OK", NULL)
             /\ buckets' = Pushed(buckets, pending)
    <3>1. pending \in Entry /\ pending.val <= given /\ pending \notin E
      BY <1>e, <2>2 DEF DictInv
    <3>2. Array(buckets) /\ Size(buckets) > 0
      BY <1>a, <2>1 DEF TypeOK, bucket_count
    <3>3. E' = E \cup {pending} /\ Distinct(buckets')
      BY <1>a, <2>2, <3>1, <3>2, PushedExact DEF E
    <3>4. DictInv'
      BY <1>a, <1>f, <2>1, <3>1, <3>3 DEF DictInv
    <3>5. PICK k \in Keys, v \in Values : pending = [key |-> k, val |-> v]
      BY <3>1 DEF Entry
    <3>6. (E \cup N)' = (E \cup N) \cup {[key |-> k, val |-> v]}
      BY <2>1, <3>3, <3>5
    <3>7. Dict!Insert(k, v)
      BY <2>2, <3>6 DEF Dict!Insert, Dict!Answer, Answer, E, N
    <3> QED
      BY <3>4, <3>7 DEF Dict!DictNext
  <2>3. CASE ret' \in {Answer("INVAL", NULL), Answer("NOMEM", NULL)} /\ UNCHANGED buckets
    <3>1. E' = E
      BY <2>3 DEF E
    <3>2. DictInv'
      BY <1>a, <1>f, <2>1, <2>3, <3>1 DEF DictInv
    <3>3. (E \cup N)' \subseteq E \cup N
      BY <2>1, <3>1
    <3>4. PICK r \in {"INVAL", "NOMEM"} : ret' = Answer(r, NULL)
      BY <2>3
    <3> QED
      BY <3>2, <3>3, <3>4, FailsAsDict
  <2> QED
    BY <1>8, <2>2, <2>3 DEF InsertEnds
<1>9. CASE revoltc_hash_map_remove
  <2>1. /\ pc = "idle" /\ N = {} /\ N' = {} /\ bucket_count > 0
        /\ UNCHANGED <<new_buckets, pc, pending, given>>
    BY <1>9, <1>a DEF revoltc_hash_map_remove, TypeOK, DictInv, N
  <2>2. PICK k \in Keys :
          LET i == hash_map_buckets_index(bucket_count, k)
              n == hash_map_get_node(k)
          IN /\ ret' = Answer("OK", Lookup(k))
             /\ IF n = 0 THEN UNCHANGED <<buckets, returned>>
                ELSE buckets' = [buckets EXCEPT ![i] = RemoveAt(@, n)]
    BY <1>9 DEF revoltc_hash_map_remove
  <2>3. CASE hash_map_get_node(k) = 0
    <3>1. Lookup(k) = NULL /\ UNCHANGED buckets
      BY <2>2, <2>3 DEF Lookup
    <3>2. \A e \in E : e.key # k
      BY <1>a, <1>b, <1>d, <2>1, <3>1, LookupFinds DEF E
    <3>3. E' = E
      BY <3>1 DEF E
    <3>4. DictInv'
      BY <1>a, <2>1, <3>1, <3>3 DEF DictInv
    <3>5. Dict!Get(k)
      BY <2>1, <2>2, <3>1, <3>2, <3>3
      DEF Dict!Get, Dict!Of, Dict!Answer, Answer, E, N
    <3> QED
      BY <3>4, <3>5 DEF Dict!DictNext
  <2>4. CASE hash_map_get_node(k) # 0
    <3>1. buckets' = [buckets EXCEPT ![hash_map_buckets_index(bucket_count, k)] =
                        RemoveAt(@, hash_map_get_node(k))]
      BY <2>2, <2>4
    <3>2. /\ Distinct(buckets')
          /\ \E e \in E : e.key = k /\ Lookup(k) = e.val /\ E' = E \ {e}
      BY <1>a, <2>1, <2>4, <3>1, RemovedExact
    <3>3. PICK e \in E : e.key = k /\ Lookup(k) = e.val /\ E' = E \ {e}
      BY <3>2
    <3>4. DictInv'
      BY <1>a, <2>1, <3>2, <3>3 DEF DictInv
    <3>5. Dict!Remove(k)
      BY <2>1, <2>2, <3>3 DEF Dict!Remove, Dict!Of, Dict!Answer, Answer, E, N
    <3> QED
      BY <3>4, <3>5 DEF Dict!DictNext
  <2> QED
    BY <2>3, <2>4
<1>10. CASE revoltc_hash_map_delete
  <2>1. /\ E' = {} /\ N = {} /\ N' = {} /\ Distinct(buckets')
        /\ UNCHANGED <<new_buckets, pending, given>> /\ pc' = "deleted"
        /\ ret' = Answer("OK", NULL)
    BY <1>10, <1>c DEF revoltc_hash_map_delete, E, N, DictInv
  <2>2. DictInv'
    BY <1>a, <2>1 DEF DictInv
  <2>3. Dict!Delete
    BY <2>1 DEF Dict!Delete, Dict!Answer, Answer, E, N
  <2> QED
    BY <2>2, <2>3 DEF Dict!DictNext
<1>11. CASE UNCHANGED mapvars
  BY <1>11 DEF mapvars, DictInv, DictVars, E, N
<1> QED
  BY <1>1, <1>2, <1>3, <1>4, <1>5, <1>6, <1>7, <1>8, <1>9, <1>10, <1>11 DEF Next

(* The map implements the Dictionary: whatever array it is in, and while     *)
(* grow moves nodes from one to the other, a call adds, finds or takes the   *)
(* entries the Dictionary says, and only an insertion that fails costs any.  *)
THEOREM ImplementsDictionaryThm == Spec => ImplementsDictionary
<1>1. Init => Dict!DictInit
  BY NoEntries DEF Init, Dict!DictInit, Dict!Answer, Answer
<1>2. MapInv /\ DictInv /\ [Next]_mapvars
        => DictInv' /\ [Dict!DictNext]_<<Entries(buckets) \cup Entries(new_buckets), ret>>
  BY DictStep DEF DictVars, E, N
<1> QED
  BY <1>1, <1>2, DictInvInit, MapInvInit, MapInvStep, PTL
  DEF Spec, ImplementsDictionary, Dict!DictSpec
=============================================================================
