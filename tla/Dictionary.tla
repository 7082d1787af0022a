------------------------------ MODULE Dictionary ------------------------------
(***************************************************************************)
(* What a RevoltcHashMap promises to its callers, said without buckets: a  *)
(* collection of entries, each a key with a value.  Inserting does not     *)
(* look for the key, so a key may have several entries, and get and remove *)
(* take any of them.  An insertion that fails may cost entries: the table  *)
(* was being enlarged.                                                     *)
(***************************************************************************)
CONSTANTS Keys, Values, NULL

VARIABLES
  entries,  \* the entries
  ret       \* what the last call returned

Answer(r, v) == [result |-> r, value |-> v]

Of(k) == {e \in entries : e.key = k}

DictInit == entries = {} /\ ret = Answer("OK", NULL)

Insert(k, v) ==
  /\ entries' = entries \cup {[key |-> k, val |-> v]}
  /\ ret' = Answer("OK", NULL)

InsertFails(r) ==
  /\ r \in {"INVAL", "NOMEM"}
  /\ entries' \in SUBSET entries
  /\ ret' = Answer(r, NULL)

(* The table is enlarged for its own sake. *)
Enlarge == UNCHANGED entries /\ ret' = Answer("OK", NULL)

Get(k) ==
  /\ UNCHANGED entries
  /\ IF Of(k) = {} THEN ret' = Answer("OK", NULL) ELSE \E e \in Of(k) : ret' = Answer("OK", e.val)

Remove(k) ==
  \/ Of(k) = {} /\ ret' = Answer("OK", NULL) /\ UNCHANGED entries
  \/ \E e \in Of(k) : ret' = Answer("OK", e.val) /\ entries' = entries \ {e}

Delete == entries' = {} /\ ret' = Answer("OK", NULL)

DictNext ==
  \/ \E k \in Keys, v \in Values : Insert(k, v)
  \/ \E r \in {"INVAL", "NOMEM"} : InsertFails(r)
  \/ \E k \in Keys : Get(k) \/ Remove(k)
  \/ Enlarge \/ Delete

DictSpec == DictInit /\ [][DictNext]_<<entries, ret>>
=============================================================================
