------------------------------- MODULE Outbox -------------------------------
(***************************************************************************)
(* What queueing a message with revolt_ws_send promises, said without      *)
(* connections: a message is transmitted at most once, newest first; one   *)
(* that leaves the queue untransmitted was lost by a run that thereby      *)
(* failed, or waited when the client was deleted, after which nothing      *)
(* happens any more.                                                       *)
(***************************************************************************)
EXTENDS Naturals

CONSTANT MaxMsgs   \* bound: messages accepted

VARIABLES
  accepted,  \* messages 1 .. accepted have been accepted
  queued,    \* those waiting
  sent,      \* those transmitted completely
  failed,    \* has the current run ended with an error?
  deleted    \* has the client been deleted?

Newest == CHOOSE m \in queued : \A n \in queued : n <= m

Init ==
  /\ accepted = 0 /\ queued = {} /\ sent = {}
  /\ failed = FALSE /\ deleted = FALSE

Accept ==
  /\ ~deleted
  /\ accepted < MaxMsgs
  /\ accepted' = accepted + 1
  /\ queued' = queued \cup {accepted + 1}
  /\ UNCHANGED <<sent, failed, deleted>>

Transmit ==
  /\ ~deleted /\ ~failed
  /\ queued # {}
  /\ queued' = queued \ {Newest}
  /\ sent' = sent \cup {Newest}
  /\ UNCHANGED <<accepted, failed, deleted>>

(* The run fails; the message it was transmitting, if any, is lost. *)
Fail ==
  /\ ~deleted
  /\ ~failed /\ failed' = TRUE
  /\ queued' = queued \/ (queued # {} /\ queued' = queued \ {Newest})
  /\ UNCHANGED <<accepted, sent, deleted>>

Restart ==
  /\ ~deleted
  /\ failed /\ failed' = FALSE
  /\ UNCHANGED <<accepted, queued, sent, deleted>>

(* The client is deleted with the messages still waiting, and only then. *)
Discard ==
  /\ ~deleted /\ deleted' = TRUE
  /\ queued' = {}
  /\ UNCHANGED <<accepted, sent, failed>>

Next == Accept \/ Transmit \/ Fail \/ Restart \/ Discard

Spec == Init /\ [][Next]_<<accepted, queued, sent, failed, deleted>>
=============================================================================
