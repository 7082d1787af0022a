---------------------------- MODULE MCEventLoop ----------------------------
(* EventLoop on a few curl handles, a queue of text messages and a peer      *)
(* that sends text, pings, a close and a control frame over the limit.      *)
EXTENDS EventLoopProps, TLC

CONSTANTS h1, h2, auth, d1, d2, big

OneHandle == {h1}
TwoHandles == {h1, h2}
MCData == Msgs \cup {auth, d1, d2, big}
MCLong == {big}
MCOutgoing ==
  [op : {"TEXT"}, data : Msgs \cup {auth}] \cup [op : {"PONG"}, data : {d1, d2, big}]
AllReplies ==
  {[op |-> "TEXT", data |-> d1], [op |-> "PING", data |-> d1],
   [op |-> "CLOSE", data |-> d1], [op |-> "PING", data |-> big]}
CommonReplies == {f \in AllReplies : f.data # big}
TwoPings == {[op |-> "PING", data |-> d1], [op |-> "PING", data |-> d2]}
Symmetry == Permutations(Handles)
=============================================================================
