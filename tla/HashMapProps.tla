---------------------------- MODULE HashMapProps ----------------------------
(* What the hash map guarantees, and the Dictionary it implements.          *)
EXTENDS HashMap

(* Types. *)
Array(b) ==
  /\ Size(b) \in Nat /\ DOMAIN b = 0 .. (Size(b) - 1)
  /\ \A i \in DOMAIN b : b[i] \in Seq(Entry)

TypeOK ==
  /\ Array(buckets) /\ Array(new_buckets)
  /\ pc \in {"none", "idle", "grow", "insert", "deleted"}
  /\ pc = "none" \/ pc = "deleted" \/ bucket_count > 0
  /\ pc = "grow" => Size(new_buckets) > 0
  /\ count \in Nat /\ new_count \in Nat
  /\ pending \in Entry \cup {NoEntry} \cup [key : Keys, val : {NULL}]
  /\ pc = "insert" => pending # NoEntry
  /\ given \in 0 .. MaxInserts

(* A key is found exactly if it has an entry, and what is found is the value *)
(* of one of its entries, however often the array was replaced and whether   *)
(* a replacement was given up half way (get 68-99, grow 191-232).            *)
FindsKey ==
  pc = "idle" =>
    \A k \in Keys :
      LET Of == {e \in Entries(buckets) : e.key = k}
      IN IF Of = {} THEN Lookup(k) = NULL ELSE \E e \in Of : Lookup(k) = e.val

(* The chains stay short on average: one entry at most is added to an array  *)
(* that is less than three quarters full (insert 127-157), although remove   *)
(* and failed insertions let the count drift from the number of entries.     *)
LoadBounded ==
  pc = "idle" => 4 * (Cardinality(Entries(buckets)) - 1) <= 3 * bucket_count

(* The map is a Dictionary; while grow is moving nodes it holds those of     *)
(* both arrays.                                                              *)
Dict == INSTANCE Dictionary WITH
  entries <- Entries(buckets) \cup Entries(new_buckets)
ImplementsDictionary == Dict!DictSpec
=============================================================================
