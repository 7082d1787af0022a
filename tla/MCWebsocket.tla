----------------------------- MODULE MCWebsocket -----------------------------
(* Websocket on two curl handles, with a payload that data frames may carry *)
(* and control frames may not.                                              *)
EXTENDS Websocket, TLC

CONSTANTS h1, h2, big

MCHandles == {h1, h2}
MCData == {big}
MCLong == {big}
MCOutgoing == {[op |-> "TEXT", data |-> big], [op |-> "PONG", data |-> big]}
MCReplies == {[op |-> "TEXT", data |-> big], [op |-> "PING", data |-> big]}
Symmetry == Permutations(MCHandles)
=============================================================================
