----------------------------- MODULE RecentlyUsed -----------------------------
(***************************************************************************)
(* What a RevoltcLRUCache promises to its callers, said without nodes and  *)
(* links: the entries in the order of their last use, the latest first, at *)
(* most capacity of them.                                                  *)
(***************************************************************************)
EXTENDS Naturals, Sequences, SequencesExt

CONSTANTS Keys, Values, NULL

VARIABLES
  entries,   \* the entries, the one used last first
  capacity,  \* how many there may be
  ret        \* what the last call returned

Answer(r, v) == [result |-> r, value |-> v]

Places == DOMAIN entries
Has(k) == \E i \in Places : entries[i].key = k

Init == entries = <<>> /\ capacity = 0 /\ ret = Answer("OK", NULL)

New == capacity' \in Nat \ {0} /\ UNCHANGED <<entries, ret>>

(* The entry at place i is used, and holds v from now on. *)
Use(i, v) ==
  entries' = <<[entries[i] EXCEPT !.val = v]>> \o RemoveAt(entries, i)

Get(k) ==
  /\ \/ ~Has(k) /\ ret' = Answer("OK", NULL) /\ UNCHANGED entries
     \/ \E i \in Places :
          /\ entries[i].key = k /\ Use(i, entries[i].val)
          /\ ret' = Answer("OK", entries[i].val)
  /\ UNCHANGED capacity

(* A new entry costs the one used longest ago if there are too many then. *)
Put(k, v) ==
  /\ \/ \E i \in Places : entries[i].key = k /\ Use(i, v)
     \/ /\ ~Has(k)
        /\ LET all == <<[key |-> k, val |-> v]>> \o entries
           IN entries' = IF Len(all) > capacity THEN Front(all) ELSE all
  /\ ret' = Answer("OK", NULL)
  /\ UNCHANGED capacity

Delete == entries' = <<>> /\ UNCHANGED <<capacity, ret>>

Next ==
  \/ New \/ Delete
  \/ \E k \in Keys : Get(k) \/ \E v \in Values : Put(k, v)
=============================================================================
