------------------------------- MODULE LruCache -------------------------------
(***************************************************************************)
(* RevoltcLRUCache (lib/core/types_lru_cache.c): a doubly linked list of   *)
(* nodes, the one used last first, and a hash map from keys to nodes.      *)
(*                                                                         *)
(* The hash map is a Dictionary; a step makes at most one call to it, so   *)
(* a put has up to three steps and delete is a loop.  free_fn is NULL.     *)
(***************************************************************************)
EXTENDS Integers, FiniteSets

CONSTANTS
  Keys,          \* the keys
  Values,        \* the values
  Nodes,         \* bound: addresses of nodes; malloc returns a free one
  NULL,          \* the null pointer
  MinCapacity,   \* the least capacity: 8
  Sizes,         \* the capacities a caller asks for
  AllocMayFail,  \* may malloc and calloc return NULL?
  MaxFailed      \* bound: insertions into the map that fail

ASSUME LruSizes == MinCapacity \in Nat \ {0} /\ Sizes \subseteq Nat
ASSUME LruBounds == MaxFailed \in Nat /\ AllocMayFail \in BOOLEAN
ASSUME LruNodes == IsFiniteSet(Nodes)
ASSUME LruNull == NULL \notin Keys \cup Values \cup Nodes

VARIABLES
  head, tail,  \* cache->head, cache->tail
  cell,        \* the node at each address
  live,        \* the addresses in use
  count,       \* cache->count
  capacity,    \* cache->capacity
  mapped,      \* could the hash map be made?
  map,         \* its entries
  map_ret,     \* what it returned last
  pc,          \* none, idle, insert, evict, delete, deleted or crashed
  putting,     \* the key a put in progress inserts
  ret,         \* what the last call returned
  failed,      \* how many puts failed to insert
  keyless,     \* keys of which a node could not get its copy
  latest       \* the value last put for each key

links == <<head, tail, cell, live>>
theMap == <<map, map_ret>>
history == <<failed, keyless, latest>>
lruvars == <<links, count, capacity, mapped, theMap, pc, putting, ret, history>>

Map == INSTANCE Dictionary WITH
  Values <- Nodes, entries <- map, ret <- map_ret

Node(k, v, p, n) == [key |-> k, value |-> v, prev |-> p, next |-> n]
Blank == Node(NULL, NULL, NULL, NULL)

Init ==
  /\ head = NULL /\ tail = NULL /\ live = {}
  /\ cell = [n \in Nodes |-> Blank]
  /\ count = 0 /\ capacity = 0 /\ mapped = FALSE
  /\ Map!DictInit
  /\ pc = "none" /\ putting = NULL /\ ret = Map!Answer("OK", NULL)
  /\ failed = 0 /\ keyless = {} /\ latest = [k \in Keys |-> NULL]

RoomFor(n) == IF n < MinCapacity THEN MinCapacity ELSE n

(* A hash map that could not be made is left NULL. *)
revoltc_lru_cache_new ==
  /\ pc = "none" /\ pc' = "idle"
  /\ \E n \in Sizes : capacity' = RoomFor(n)
  /\ mapped' \in {TRUE, ~AllocMayFail}
  /\ UNCHANGED <<links, count, theMap, putting, ret, history>>

-----------------------------------------------------------------------------
(* c with x written to field f of node n, if there is one. *)
Write(c, n, f, x) == IF n = NULL THEN c ELSE [c EXCEPT ![n][f] = x]

(* Faulty: the node behind keeps pointing to the one that moved. *)
UnlinkedInFront(c, n) ==
  LET c1 == Write(c, head, "prev", n)
      c2 == Write(c1, c1[n].prev, "next", c1[n].next)
  IN IF head = n THEN c ELSE [c2 EXCEPT ![n].prev = NULL, ![n].next = head]

(* lru_cache_move_to_head, write by write. *)
CellsWithHead(c, n) ==
  LET c1 == Write(c, head, "prev", n)
      c2 == Write(c1, c1[n].prev, "next", c1[n].next)
      c3 == Write(c2, c2[n].next, "prev", c2[n].prev)
  IN IF head = n THEN c ELSE [c3 EXCEPT ![n].prev = NULL, ![n].next = head]

lru_cache_move_to_head(c, n) ==
  /\ cell' = CellsWithHead(c, n)
  /\ head' = n
  /\ tail' = IF head # n /\ n = tail THEN c[n].prev ELSE tail
  /\ UNCHANGED live

(* A freed node may hold anything, and there is no node at NULL: what the    *)
(* program does after such an access is not followed.                        *)
Crash == pc' = "crashed" /\ UNCHANGED <<links, putting, ret, failed, keyless>>

(* Faulty: a get is no use. *)
GetWithoutUse ==
  /\ pc = "idle"
  /\ \E k \in Keys : Map!Get(k)
  /\ LET n == map_ret'.value
     IN \/ /\ n = NULL /\ ret' = Map!Answer("OK", NULL) /\ UNCHANGED pc
        \/ /\ n \in live /\ ret' = Map!Answer("OK", cell[n].value) /\ UNCHANGED pc
        \/ n \in Nodes \ live /\ pc' = "crashed" /\ UNCHANGED ret
  /\ UNCHANGED <<links, count, capacity, mapped, putting, history>>

revoltc_lru_cache_get ==
  /\ pc = "idle"
  /\ \E k \in Keys : Map!Get(k)
  /\ LET n == map_ret'.value
     IN \/ /\ n = NULL /\ ret' = Map!Answer("OK", NULL)
           /\ UNCHANGED <<links, pc, putting, failed, keyless>>
        \/ /\ n \in live /\ lru_cache_move_to_head(cell, n)
           /\ ret' = Map!Answer("OK", cell[n].value)
           /\ UNCHANGED <<pc, putting, failed, keyless>>
        \/ n \in Nodes \ live /\ Crash
  /\ UNCHANGED <<count, capacity, mapped, latest>>

(* Put of a key the map has not: a new node, with a copy of the key if there *)
(* is memory for one, comes to the head before the map is asked to take it.  *)
PutNew(k, v) ==
  \/ \E n \in Nodes \ live, c \in {k} \cup (IF AllocMayFail THEN {NULL} ELSE {}) :
       /\ cell' = Write([cell EXCEPT ![n] = Node(c, v, NULL, head)], head, "prev", n)
       /\ head' = n /\ tail' = IF tail = NULL THEN n ELSE tail
       /\ live' = live \cup {n}
       /\ keyless' = IF c = NULL THEN keyless \cup {k} ELSE keyless
       /\ pc' = "insert" /\ putting' = k
       /\ UNCHANGED <<ret, failed>>
  \/ AllocMayFail /\ Crash

(* Faulty: forgets the new value. *)
AgainKeepsValue(n, v) ==
  \/ /\ n \in live
     /\ lru_cache_move_to_head(cell, n)
     /\ ret' = Map!Answer("OK", NULL)
     /\ UNCHANGED <<pc, putting, failed, keyless>>
  \/ n \in Nodes \ live /\ Crash

PutAgain(n, v) ==
  \/ /\ n \in live
     /\ lru_cache_move_to_head([cell EXCEPT ![n].value = v], n)
     /\ ret' = Map!Answer("OK", NULL)
     /\ UNCHANGED <<pc, putting, failed, keyless>>
  \/ n \in Nodes \ live /\ Crash

revoltc_lru_cache_put ==
  /\ pc = "idle" /\ (mapped \/ failed < MaxFailed)
  /\ \E k \in Keys, v \in Values :
       /\ Map!Get(k)
       /\ latest' = [latest EXCEPT ![k] = v]
       /\ IF map_ret'.value = NULL THEN PutNew(k, v) ELSE PutAgain(map_ret'.value, v)
  /\ UNCHANGED <<count, capacity, mapped>>

(* Faulty: evicts when the cache is full and not when it is over. *)
EvictsOneLate ==
  /\ pc = "insert"
  /\ mapped /\ Map!Insert(putting, head)
  /\ count' = count + 1
  /\ IF count > capacity THEN pc' = "evict" /\ UNCHANGED ret
     ELSE pc' = "idle" /\ ret' = Map!Answer("OK", NULL)
  /\ putting' = NULL
  /\ UNCHANGED <<links, capacity, mapped, history>>

PutInserts ==
  /\ pc = "insert"
  /\ mapped /\ Map!Insert(putting, head)
  /\ count' = count + 1
  /\ IF count' > capacity THEN pc' = "evict" /\ UNCHANGED ret
     ELSE pc' = "idle" /\ ret' = Map!Answer("OK", NULL)
  /\ putting' = NULL
  /\ UNCHANGED <<links, capacity, mapped, history>>

(* The node stays in the list, and does not count. *)
PutFails ==
  /\ pc = "insert" /\ pc' = "idle"
  /\ AllocMayFail /\ failed < MaxFailed
  /\ \E r \in {"INVAL", "NOMEM"} : Map!InsertFails(r) /\ ret' = Map!Answer(r, NULL)
  /\ putting' = NULL /\ failed' = failed + 1
  /\ UNCHANGED <<links, count, capacity, mapped, keyless, latest>>

(* revoltc_hash_map_remove finds nothing for the key NULL. *)
MapRemove(k) ==
  IF k = NULL THEN UNCHANGED map /\ map_ret' = Map!Answer("OK", NULL) ELSE Map!Remove(k)

(* Faulty: leaves the entry in the map. *)
EvictsNodeOnly ==
  /\ pc = "evict" /\ pc' = "idle"
  /\ tail' = cell[tail].prev
  /\ cell' = [Write(cell, cell[tail].prev, "next", NULL) EXCEPT ![tail] = Blank]
  /\ live' = live \ {tail}
  /\ count' = count - 1
  /\ ret' = Map!Answer("OK", NULL)
  /\ UNCHANGED <<head, capacity, mapped, theMap, putting, history>>

PutEvicts ==
  /\ pc = "evict" /\ pc' = "idle"
  /\ tail' = cell[tail].prev
  /\ cell' = [Write(cell, cell[tail].prev, "next", NULL) EXCEPT ![tail] = Blank]
  /\ live' = live \ {tail}
  /\ MapRemove(cell[tail].key)
  /\ count' = count - 1
  /\ ret' = Map!Answer("OK", NULL)
  /\ UNCHANGED <<head, capacity, mapped, putting, history>>

revoltc_lru_cache_delete ==
  /\ pc = "idle" /\ pc' = "delete"
  /\ UNCHANGED <<links, count, capacity, mapped, theMap, putting, ret, history>>

DeleteNode ==
  /\ pc = "delete" /\ head # NULL
  /\ head' = cell[head].next
  /\ cell' = [cell EXCEPT ![head] = Blank] /\ live' = live \ {head}
  /\ UNCHANGED <<tail, count, capacity, mapped, theMap, pc, putting, ret, history>>

DeleteEnds ==
  /\ pc = "delete" /\ head = NULL /\ pc' = "deleted"
  /\ Map!Delete
  /\ UNCHANGED <<links, count, capacity, mapped, putting, ret, history>>

Next ==
  \/ revoltc_lru_cache_new \/ revoltc_lru_cache_get \/ revoltc_lru_cache_put
  \/ PutInserts \/ PutFails \/ PutEvicts
  \/ revoltc_lru_cache_delete \/ DeleteNode \/ DeleteEnds

Spec == Init /\ [][Next]_lruvars
=============================================================================
