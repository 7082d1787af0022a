------------------------------- MODULE Cursor -------------------------------
(***************************************************************************)
(* What the JSON wrappers promise: a document is read along one line of    *)
(* values.  Each is a part of the one before it, or follows it in its      *)
(* array; looking into a value gives up whatever was reached behind it.    *)
(***************************************************************************)
EXTENDS Naturals, Sequences

VARIABLE line    \* the values reached, each by its path from the document

Init == line = <<>>

Open == line = <<>> /\ line' = << <<>> >>

PartOf(v, w) == Len(w) < Len(v) /\ SubSeq(v, 1, Len(w)) = w
SameArray(v, w) ==
  Len(v) = Len(w) /\ w # <<>> /\ SubSeq(v, 1, Len(v) - 1) = SubSeq(w, 1, Len(w) - 1)

Look ==
  \E i \in DOMAIN line :
    \/ line' = SubSeq(line, 1, i)
    \/ /\ Len(line') = i + 1 /\ SubSeq(line', 1, i) = SubSeq(line, 1, i)
       /\ PartOf(line'[i + 1], line[i]) \/ SameArray(line'[i + 1], line[i])

Close == line # <<>> /\ line' = <<>>

Next == Open \/ Look \/ Close

Spec == Init /\ [][Next]_line
=============================================================================
