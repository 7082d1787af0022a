---------------------------- MODULE LruCacheProps ----------------------------
(* What the cache guarantees, and the order of use it implements.           *)
EXTENDS LruCache, Sequences, SequencesExt

(* Types. *)
Pointers == Nodes \cup {NULL}
Cells == [Nodes -> [key : Keys \cup {NULL}, value : Values \cup {NULL},
                    prev : Pointers, next : Pointers]]
TypeOK ==
  /\ head \in Pointers /\ tail \in Pointers /\ live \subseteq Nodes
  /\ cell \in Cells
  /\ count \in Nat /\ capacity \in Nat /\ mapped \in BOOLEAN
  /\ map \subseteq [key : Keys, val : Nodes]
  /\ pc \in {"none", "idle", "insert", "evict", "delete", "deleted", "crashed"}
  /\ putting \in Keys \cup {NULL}
  /\ pc = "insert" => putting \in Keys /\ head \in live
  /\ pc = "evict" => tail \in live
  /\ failed \in 0 .. MaxFailed /\ keyless \subseteq Keys
  /\ latest \in [Keys -> Values \cup {NULL}]

(* The nodes in use, from head to tail, agree with both links of each.       *)
InOrder(s) ==
  LET n == Cardinality(live)
      At(i) == IF i \in 1 .. n THEN s[i] ELSE NULL
  IN /\ ToSet(s) = live
     /\ head = At(1) /\ tail = At(n)
     /\ \A i \in 1 .. n : cell[s[i]].next = At(i + 1) /\ cell[s[i]].prev = At(i - 1)

Orders == SetToSeqs(live)

(* Whatever was put, found, evicted or has failed, the nodes in use form one *)
(* list that can be walked from either end: no write of move_to_head, put or *)
(* the eviction (45-67, 98-109, 116-125) loses or doubles a node.            *)
WellLinked ==
  pc \in {"idle", "insert", "evict"} => \E s \in Orders : InOrder(s)

(* The map refers to nodes in use that hold the key they are found under,    *)
(* unless a node could not get a copy of its key (99, 123-125).              *)
NoDangling ==
  pc \in {"idle", "insert"} =>
    \A e \in map : e.key \in keyless \/ (e.val \in live /\ cell[e.val].key = e.key)

(* What is found for a key is the value put last, although nodes of earlier  *)
(* puts that failed stay in the list (111-113).                              *)
LatestFound ==
  pc = "idle" /\ keyless = {} =>
    \A e \in map : cell[e.val].value = latest[e.key]

(* A node more than are counted stays for each put that failed, for good; no *)
(* other put makes the cache larger than its capacity (111-128).             *)
SizeBounded ==
  pc = "idle" => count <= capacity /\ Cardinality(live) = count + failed

(* Delete releases every node, those the map does not know of included.      *)
DeleteFrees == pc = "deleted" => live = {}

(* As long as no allocation has failed, the cache is the list of its entries *)
(* in the order of use.  A put is over when it returns: until then its node  *)
(* is not in the list.                                                       *)
Order == CHOOSE o \in Orders : InOrder(o)
Visible == IF pc \in {"insert", "evict"} THEN Tail(Order) ELSE Order
Listed ==
  IF pc \in {"none", "idle", "insert", "evict"}
  THEN [i \in DOMAIN Visible |-> [key |-> cell[Visible[i]].key,
                                  val |-> cell[Visible[i]].value]]
  ELSE <<>>
Lru == INSTANCE RecentlyUsed WITH entries <- Listed
Undisturbed == failed = 0 /\ keyless = {} /\ pc # "crashed"
ImplementsRecentlyUsed ==
  Lru!Init /\ [][Undisturbed' => Lru!Next]_<<Listed, capacity, ret>>
=============================================================================
