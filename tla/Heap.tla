-------------------------------- MODULE Heap --------------------------------
(***************************************************************************)
(* The C heap, as far as the fetching of objects uses it: which blocks are *)
(* in use, how many allocations may still fail, and what has been done to  *)
(* memory that was not there.  A block has the name of what it holds.      *)
(***************************************************************************)
EXTENDS Naturals, Sequences, FiniteSets

CONSTANT MaxFailures   \* bound: allocations that fail

ASSUME MaxFailuresAssumption == MaxFailures \in Nat

VARIABLES
  blocks,    \* the blocks in use
  failures,  \* allocations that may still fail
  misuse     \* what has been done through pointers that led nowhere

mvars == <<blocks, failures, misuse>>

NULL == <<>>
WILD == <<"wild">>   \* of a pointer that was never written

HeapInit == blocks = {} /\ failures = MaxFailures /\ misuse = {}

(* The sets of at most so many allocations of S that may fail together. *)
MayFail(S) == {F \in SUBSET S : Cardinality(F) <= failures}

(* A name for a new block that holds b. *)
Fresh(b) == IF b \in blocks THEN b \o <<"again">> ELSE b

(* What one function does to the heap: blocks that stay allocated, blocks it *)
(* frees, how many allocations failed and what it did wrong.                 *)
Memory(new, freed, failed, wrong) ==
  /\ failed <= failures
  /\ failures' = failures - failed
  /\ blocks' = (blocks \cup new) \ freed
  /\ misuse' = misuse \cup wrong
                      \cup (IF freed \subseteq blocks \cup new THEN {} ELSE {"freed twice"})

AllocationFailed == failures < MaxFailures
=============================================================================
