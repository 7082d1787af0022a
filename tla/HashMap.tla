------------------------------- MODULE HashMap -------------------------------
(***************************************************************************)
(* RevoltcHashMap (lib/core/types_hashmap.c): chains of entries in an      *)
(* array of buckets that is replaced by a larger one when it fills up.     *)
(*                                                                         *)
(* A chain is a sequence, its head first.  The replacement moves one node  *)
(* at a time, each into a node of its own, so it is a loop of steps that   *)
(* may stop half way; everything else a call does is one step.             *)
(***************************************************************************)
EXTENDS Integers, FiniteSets, Sequences, SequencesExt

CONSTANTS
  Keys,          \* the keys
  Hash,          \* REVOLTC_HASH_MAP_HASH
  NULL,          \* the null pointer
  MinBuckets,    \* the least number of buckets: 16
  DoublesUpTo,   \* up to this many the array doubles: 1024
  HalvesUpTo,    \* up to this many it grows by half, beyond by a quarter: 16384
  Sizes,         \* the numbers of buckets a caller asks for
  AllocMayFail,  \* may malloc and calloc return NULL?
  MaxInserts,    \* bound: insertions
  MaxBuckets     \* bound: buckets a caller asks grow for

ASSUME HashAssumption == Hash \in [Keys -> Nat]
ASSUME SizesAssumption ==
  /\ MinBuckets \in Nat \ {0} /\ DoublesUpTo \in Nat /\ HalvesUpTo \in Nat
  /\ Sizes \subseteq Nat
ASSUME MapBounds == MaxInserts \in Nat /\ MaxBuckets \in Nat
ASSUME AllocAssumption == AllocMayFail \in BOOLEAN

(* Every insertion is given a value of its own, so that it can be followed.  *)
Values == 1 .. MaxInserts
ASSUME NullAssumption == NULL \notin Values \cup Keys

VARIABLES
  buckets,      \* map->buckets
  count,        \* map->count
  new_buckets,  \* the array grow is filling
  new_count,    \* the nodes it has moved
  pc,           \* none, idle, in the loop of grow, about to insert, or deleted
  pending,      \* the entry of the insertion in progress
  given,        \* values given to insert so far
  lost,         \* values that went down with an array grow gave up
  returned,     \* values remove has returned
  freed,        \* values handed to free_fn by delete
  ret           \* what the last call returned

mapvars == <<buckets, count, new_buckets, new_count, pc, pending,
             given, lost, returned, freed, ret>>

Answer(r, v) == [result |-> r, value |-> v]

Entry == [key : Keys, val : Values]
NoEntry == [key |-> NULL, val |-> NULL]
NoBuckets == [i \in {} |-> <<>>]

Size(b) == Cardinality(DOMAIN b)
bucket_count == Size(buckets)

(* Faulty: keeps using the number of buckets of the old array. *)
IndexInOldArray(n, k) == Hash[k] % Size(buckets)

hash_map_buckets_index(n, k) == Hash[k] % n

Entries(b) == UNION {ToSet(b[i]) : i \in DOMAIN b}
ValuesIn(b) == {e.val : e \in Entries(b)}

Calloc(n) == [i \in 0 .. (n - 1) |-> <<>>]

Init ==
  /\ buckets = NoBuckets /\ count = 0
  /\ new_buckets = NoBuckets /\ new_count = 0
  /\ pc = "none" /\ pending = NoEntry
  /\ given = 0 /\ lost = {} /\ returned = {} /\ freed = {}
  /\ ret = Answer("OK", NULL)

-----------------------------------------------------------------------------
RoomFor(n) ==
  IF n = 0 THEN 8 * MinBuckets ELSE IF n < MinBuckets THEN MinBuckets ELSE n

revoltc_hash_map_new ==
  /\ pc = "none" /\ pc' = "idle"
  /\ \E n \in Sizes : buckets' = Calloc(RoomFor(n))
  /\ UNCHANGED <<count, new_buckets, new_count, pending, given, lost,
                 returned, freed, ret>>

(* The place of the first node of the key in its chain, 0 if there is none.  *)
Chain(k) == buckets[hash_map_buckets_index(bucket_count, k)]
hash_map_get_node(k) ==
  LET HasKey(e) == e.key = k IN SelectInSeq(Chain(k), HasKey)

Lookup(k) ==
  IF hash_map_get_node(k) = 0 THEN NULL ELSE Chain(k)[hash_map_get_node(k)].val

revoltc_hash_map_get ==
  /\ pc = "idle"
  /\ \E k \in Keys : ret' = Answer("OK", Lookup(k))
  /\ UNCHANGED <<buckets, count, new_buckets, new_count, pc, pending, given,
                 lost, returned, freed>>

(* A new node at the head of its chain. *)
Pushed(b, e) ==
  LET i == hash_map_buckets_index(Size(b), e.key)
  IN [b EXCEPT ![i] = <<e>> \o @]

-----------------------------------------------------------------------------
(* 0.75 * bucket_count, in integers. *)
Full == 4 * count >= 3 * bucket_count

Grown ==
  IF bucket_count <= DoublesUpTo THEN 2 * bucket_count
  ELSE IF bucket_count <= HalvesUpTo THEN (3 * bucket_count) \div 2
  ELSE (5 * bucket_count) \div 4

(* revoltc_hash_map_grow up to its loop, with room for n buckets, on behalf  *)
(* of the insertion of e.                                                    *)
GrowTo(n, e) ==
  \/ /\ pc' = "grow" /\ pending' = e
     /\ new_buckets' = Calloc(n) /\ new_count' = 0
     /\ UNCHANGED ret
  \/ /\ AllocMayFail
     /\ ret' = Answer("NOMEM", NULL)
     /\ UNCHANGED <<pc, pending, new_buckets, new_count>>

(* revoltc_hash_map_insert: a full array is replaced first. *)
revoltc_hash_map_insert ==
  /\ pc = "idle" /\ given < MaxInserts
  /\ given' = given + 1
  /\ \E k \in Keys, v \in {given + 1, NULL} :
       LET e == [key |-> k, val |-> v]
       IN IF Full THEN GrowTo(Grown, e)
          ELSE /\ pc' = "insert" /\ pending' = e
               /\ UNCHANGED <<new_buckets, new_count, ret>>
  /\ UNCHANGED <<buckets, count, lost, returned, freed>>

(* revoltc_hash_map_grow called by itself: by a hundredth up to tenfold.     *)
revoltc_hash_map_grow ==
  /\ pc = "idle"
  /\ \E n \in ((101 * bucket_count) \div 100) .. (11 * bucket_count) :
       n <= MaxBuckets /\ GrowTo(n, NoEntry)
  /\ UNCHANGED <<buckets, count, given, lost, returned, freed>>

(* The first bucket that still has nodes, and the node at its head. *)
First(i) == buckets[i] # <<>> /\ \A j \in DOMAIN buckets : j < i => buckets[j] = <<>>

(* Faulty: forgets the nodes behind the one it moves. *)
MoveOnlyHead ==
  /\ pc = "grow"
  /\ \E i \in DOMAIN buckets :
       /\ First(i)
       /\ buckets' = [buckets EXCEPT ![i] = <<>>]
       /\ new_buckets' = Pushed(new_buckets, Head(buckets[i]))
  /\ new_count' = new_count + 1
  /\ UNCHANGED <<count, pc, pending, given, lost, returned, freed, ret>>

GrowMove ==
  /\ pc = "grow"
  /\ \E i \in DOMAIN buckets :
       /\ First(i)
       /\ buckets' = [buckets EXCEPT ![i] = Tail(@)]
       /\ new_buckets' = Pushed(new_buckets, Head(buckets[i]))
  /\ new_count' = new_count + 1
  /\ UNCHANGED <<count, pc, pending, given, lost, returned, freed, ret>>

(* Without memory for a node grow returns at once: the node it could not     *)
(* move is freed, and the new array is dropped with all it holds.            *)
GrowFails ==
  /\ pc = "grow" /\ AllocMayFail
  /\ \E i \in DOMAIN buckets :
       /\ First(i)
       /\ buckets' = [buckets EXCEPT ![i] = Tail(@)]
       /\ lost' = lost \cup ValuesIn(new_buckets) \cup {Head(buckets[i]).val}
  /\ new_buckets' = NoBuckets /\ new_count' = 0
  /\ pc' = "idle" /\ ret' = Answer("NOMEM", NULL) /\ pending' = NoEntry
  /\ UNCHANGED <<count, given, returned, freed>>

(* Faulty: starts counting again. *)
GrowForgetsCount ==
  /\ pc = "grow"
  /\ Entries(buckets) = {}
  /\ buckets' = new_buckets /\ count' = 0
  /\ new_buckets' = NoBuckets /\ new_count' = 0
  /\ IF pending = NoEntry THEN pc' = "idle" /\ ret' = Answer("OK", NULL)
     ELSE pc' = "insert" /\ UNCHANGED ret
  /\ UNCHANGED <<pending, given, lost, returned, freed>>

GrowEnds ==
  /\ pc = "grow"
  /\ Entries(buckets) = {}
  /\ buckets' = new_buckets /\ count' = new_count
  /\ new_buckets' = NoBuckets /\ new_count' = 0
  /\ IF pending = NoEntry THEN pc' = "idle" /\ ret' = Answer("OK", NULL)
     ELSE pc' = "insert" /\ UNCHANGED ret
  /\ UNCHANGED <<pending, given, lost, returned, freed>>

(* map->count++ and hash_map_buckets_insert, which refuses a value or a copy *)
(* of the key that is NULL: the insertion counts whether it succeeds or not. *)
InsertEnds ==
  /\ pc = "insert" /\ pc' = "idle"
  /\ count' = count + 1
  /\ pending' = NoEntry
  /\ \/ /\ pending.val # NULL /\ ret' = Answer("OK", NULL)
        /\ buckets' = Pushed(buckets, pending)
     \/ /\ pending.val = NULL \/ AllocMayFail
        /\ ret' = Answer("INVAL", NULL)
        /\ UNCHANGED buckets
     \/ /\ pending.val # NULL /\ AllocMayFail
        /\ ret' = Answer("NOMEM", NULL)
        /\ UNCHANGED buckets
  /\ UNCHANGED <<new_buckets, new_count, given, lost, returned, freed>>

-----------------------------------------------------------------------------
(* The count stays as it is: only grow brings it down. *)
revoltc_hash_map_remove ==
  /\ pc = "idle"
  /\ \E k \in Keys :
       LET i == hash_map_buckets_index(bucket_count, k)
           n == hash_map_get_node(k)
       IN /\ ret' = Answer("OK", Lookup(k))
          /\ IF n = 0 THEN UNCHANGED <<buckets, returned>>
             ELSE /\ buckets' = [buckets EXCEPT ![i] = RemoveAt(@, n)]
                  /\ returned' = returned \cup {Lookup(k)}
  /\ UNCHANGED <<count, new_buckets, new_count, pc, pending, given, lost, freed>>

revoltc_hash_map_delete ==
  /\ pc = "idle" /\ pc' = "deleted"
  /\ freed' = ValuesIn(buckets)
  /\ buckets' = NoBuckets
  /\ ret' = Answer("OK", NULL)
  /\ UNCHANGED <<count, new_buckets, new_count, pending, given, lost, returned>>

Next ==
  \/ revoltc_hash_map_new \/ revoltc_hash_map_get
  \/ revoltc_hash_map_insert \/ revoltc_hash_map_grow
  \/ GrowMove \/ GrowFails \/ GrowEnds \/ InsertEnds
  \/ revoltc_hash_map_remove \/ revoltc_hash_map_delete

Spec == Init /\ [][Next]_mapvars
=============================================================================
