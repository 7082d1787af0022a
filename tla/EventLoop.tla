------------------------------ MODULE EventLoop ------------------------------
(***************************************************************************)
(* The client's event loop: lib/ws.c on top of Websocket, lib/client.c,    *)
(* and the two threads of playground/main.c that use them.                 *)
(*                                                                         *)
(* The run thread executes revolt_run; its program counter pc stops at     *)
(* every call into Websocket and at every access to data the main thread   *)
(* shares with it (running), so the peer and the main thread can act       *)
(* between any two of them.  Callbacks run on the run thread, inside the   *)
(* poll that dispatches them.                                              *)
(***************************************************************************)
EXTENDS Websocket, FiniteSets

CONSTANTS
  AUTH,      \* the payload of the Authenticate message
  AppOps,    \* the opcodes the application queues messages with
  Slots,     \* the callback slots the application may fill
  TxSize,    \* ws->tx_size
  MaxMsgs,   \* bound: messages the application queues
  MaxRuns    \* bound: calls of revolt_run

Msgs == 1 .. MaxMsgs

ASSUME LoopBounds == TxSize \in Nat /\ MaxMsgs \in Nat /\ MaxRuns \in Nat
ASSUME SlotsAssumption ==
  Slots \subseteq {"open", "close", "str", "bin", "ping", "pong"}
ASSUME DataAssumption ==
  /\ AUTH \in Data \ Long /\ AUTH \notin Msgs /\ Msgs \subseteq Data
  /\ Status \cap (Msgs \cup {AUTH}) = {}
  /\ AppOps \subseteq Opcodes \ {"CLOSE"}
  /\ \A f \in Replies : f.data \notin Msgs \cup {AUTH}
ASSUME OutgoingAssumption ==
  /\ {[op |-> "TEXT", data |-> AUTH]} \subseteq Outgoing
  /\ [op : AppOps, data : Msgs] \subseteq Outgoing
  /\ {[f EXCEPT !.op = "PONG"] : f \in Replies} \subseteq Outgoing

VARIABLES
  tx,       \* ws->tx[0 .. tx_count-1]: a stack of frames
  last,     \* messages revolt_ws_send has accepted so far, 1 .. last
  cbs,      \* the slots of ws->callbacks with a function
  running,  \* client->running
  pc,       \* where the run thread is
  rx,       \* the frame revolt_ws_poll is dispatching
  res,      \* the run thread's last result, what revolt_run returns
  main,     \* where the main thread is
  runs      \* calls of revolt_run so far

loopvars == <<tx, last, cbs, running, pc, rx, res, main, runs>>
vars == <<wsvars, loopvars>>

(* The places inside the while loop of revolt_run. *)
InLoop == {"check", "tx", "rx", "dispatch", "callback", "close2",
           "drop_parse", "drop", "reconnect", "reauth"}

Init ==
  /\ WsInit
  /\ tx = <<>> /\ last = 0
  /\ cbs = {}
  /\ running = FALSE
  /\ pc = "idle"
  /\ rx = NoFrame
  /\ res = "OK"
  /\ main = "setup"
  /\ runs = 0

-----------------------------------------------------------------------------
(* Faulty: accepts one entry too many. *)
SendsOneTooMany(op) ==
  /\ last < MaxMsgs
  /\ Len(tx) <= TxSize
  /\ tx' = Append(tx, [op |-> op, data |-> last + 1])
  /\ last' = last + 1

(* revolt_ws_send: a push, refused with REVOLTE_LIMIT when the stack is full. *)
revolt_ws_send(op) ==
  /\ last < MaxMsgs
  /\ Len(tx) < TxSize
  /\ tx' = Append(tx, [op |-> op, data |-> last + 1])
  /\ last' = last + 1

(* revolt_ws_set_on; RECV_x and SEND_x share a slot. *)
revolt_ws_set_on(slot) == cbs' = cbs \cup {slot}

-----------------------------------------------------------------------------
(* revolt_ws_connect, called by revolt_run at "connect" and by revolt_ws_poll *)
(* at "reconnect": connect, then send the Authenticate message; an error of   *)
(* either is the caller's result.                                             *)
ConnectAt(here, there, failed) ==
  /\ pc = here
  /\ \E r \in Results :
       /\ revoltc_ws_connect(r)
       /\ res' = r
       /\ pc' = IF r = "OK" THEN there ELSE failed
  /\ UNCHANGED <<tx, last, cbs, running, rx, main, runs>>

AuthenticateAt(here, there, failed) ==
  /\ pc = here
  /\ \E r \in Results :
       /\ \/ revoltc_ws_send([op |-> "TEXT", data |-> AUTH], r)
          \/ AllocMayFail /\ r = "NOMEM" /\ UNCHANGED wsvars
       /\ res' = r
       /\ pc' = IF r = "OK" THEN there ELSE failed
  /\ UNCHANGED <<tx, last, cbs, running, rx, main, runs>>

(* Faulty: poll connects without authenticating; tries again when it fails. *)
ReconnectOnly == ConnectAt("reconnect", "check", "stop")
ReconnectUntilUp == ConnectAt("reconnect", "reauth", "reconnect")

(* revolt_run returns at once, without touching running, when the first      *)
(* connect fails; an error of a later one ends the loop.                     *)
RunConnect == ConnectAt("connect", "auth", "exit")
RunAuthenticate == AuthenticateAt("auth", "start", "exit")
PollReconnect == ConnectAt("reconnect", "reauth", "stop")
PollReauthenticate == AuthenticateAt("reauth", "check", "stop")

RunStart ==
  /\ pc = "start" /\ pc' = "check"
  /\ running' = TRUE
  /\ UNCHANGED <<wsvars, tx, last, cbs, rx, res, main, runs>>

(* Faulty: never looks at running. *)
RunsForEver ==
  /\ pc = "check" /\ pc' = "tx"
  /\ UNCHANGED <<wsvars, tx, last, cbs, running, rx, res, main, runs>>

RunCheck ==
  /\ pc = "check"
  /\ pc' = IF running THEN "tx" ELSE "stop"
  /\ UNCHANGED <<wsvars, tx, last, cbs, running, rx, res, main, runs>>

RunStop ==
  /\ pc = "stop" /\ pc' = "exit"
  /\ running' = FALSE
  /\ UNCHANGED <<wsvars, tx, last, cbs, rx, res, main, runs>>

-----------------------------------------------------------------------------
(* Faulty: goes on polling after a send that failed. *)
SendIgnoringErrors ==
  /\ pc = "tx" /\ pc' = "rx"
  /\ \/ tx = <<>> /\ UNCHANGED <<wsvars, tx>>
     \/ /\ tx # <<>>
        /\ tx' = SubSeq(tx, 1, Len(tx) - 1)
        /\ \E r \in Results : revoltc_ws_send(tx[Len(tx)], r)
  /\ UNCHANGED <<last, cbs, running, rx, res, main, runs>>

(* Faulty: the entry leaves the stack only when it was sent. *)
SendThenPop ==
  /\ pc = "tx"
  /\ \/ tx = <<>> /\ pc' = "rx" /\ UNCHANGED <<wsvars, tx, res>>
     \/ /\ tx # <<>>
        /\ \E r \in Results :
             /\ revoltc_ws_send(tx[Len(tx)], r)
             /\ res' = r
             /\ tx' = IF r = "OK" THEN SubSeq(tx, 1, Len(tx) - 1) ELSE tx
             /\ pc' = IF r = "OK" THEN "rx" ELSE "stop"
  /\ UNCHANGED <<last, cbs, running, rx, main, runs>>

(* Faulty: never sends the last entry. *)
SendLeavesOne ==
  /\ pc = "tx"
  /\ \/ Len(tx) <= 1 /\ pc' = "rx" /\ UNCHANGED <<wsvars, tx, res>>
     \/ /\ Len(tx) > 1
        /\ tx' = SubSeq(tx, 1, Len(tx) - 1)
        /\ \E r \in Results :
             /\ revoltc_ws_send(tx[Len(tx)], r)
             /\ res' = r
             /\ pc' = IF r = "OK" THEN "rx" ELSE "stop"
  /\ UNCHANGED <<last, cbs, running, rx, main, runs>>

(* revolt_ws_poll, first half: the newest entry leaves the stack before it is *)
(* sent, and an error of the send is the result of the poll.                  *)
PollSend ==
  /\ pc = "tx"
  /\ \/ tx = <<>> /\ pc' = "rx" /\ UNCHANGED <<wsvars, tx, res>>
     \/ /\ tx # <<>>
        /\ tx' = SubSeq(tx, 1, Len(tx) - 1)
        /\ \E r \in Results :
             /\ revoltc_ws_send(tx[Len(tx)], r)
             /\ res' = r
             /\ pc' = IF r = "OK" THEN "rx" ELSE "stop"
  /\ UNCHANGED <<last, cbs, running, rx, main, runs>>

(* Second half: receive one frame, or nothing, and dispatch it or recover.  *)
AfterReceive(fr, r) ==
  CASE r = "OK" -> IF fr = NoFrame THEN "check" ELSE "dispatch"
    [] r \in {"DISCONNECT", "TIMEOUT"} -> "drop"
    [] r = "PARSE" -> "drop_parse"
    [] OTHER -> "stop"

PollReceive ==
  /\ pc = "rx"
  /\ \E fr \in Replies \cup {NoFrame}, r \in Results :
       /\ revoltc_ws_recv(fr, r)
       /\ rx' = fr
       /\ pc' = AfterReceive(fr, r)
       /\ res' = IF AfterReceive(fr, r) = "stop" THEN r ELSE "OK"
  /\ UNCHANGED <<tx, last, cbs, running, main, runs>>

(* The results of the disconnects are ignored. *)
DisconnectAt(here, status, there) ==
  /\ pc = here /\ pc' = there
  /\ \E r \in Results : revoltc_ws_disconnect(status, r)
  /\ UNCHANGED <<tx, last, cbs, running, rx, res, main, runs>>

(* Faulty: poll reconnects without disconnecting first. *)
DropNothing ==
  /\ pc = "drop" /\ pc' = "reconnect"
  /\ UNCHANGED <<wsvars, tx, last, cbs, running, rx, res, main, runs>>

(* Faulty: what was queued on the old connection is forgotten with it. *)
DropEmptiesStack ==
  /\ pc = "drop" /\ pc' = "reconnect"
  /\ \E r \in Results : revoltc_ws_disconnect(NORMAL, r)
  /\ tx' = <<>>
  /\ UNCHANGED <<last, cbs, running, rx, res, main, runs>>

PollDropParse == DisconnectAt("drop_parse", PROTOCOL_ERR, "drop")
PollDrop == DisconnectAt("drop", NORMAL, "reconnect")

-----------------------------------------------------------------------------
(* on_close disconnects before and after its callback. *)
on_close ==
  /\ rx.op = "CLOSE"
  /\ DisconnectAt("dispatch", NORMAL, "callback")

(* Faulty: reconnects after the peer has closed. *)
CloseThenReconnect == DisconnectAt("close2", NORMAL, "reconnect")

on_close_end == DisconnectAt("close2", NORMAL, "check")

(* Faulty: answers through the stack, like any other message. *)
PingQueues ==
  /\ pc = "dispatch" /\ rx.op = "PING"
  /\ tx' = Append(tx, [op |-> "PONG", data |-> rx.data])
  /\ pc' = "callback"
  /\ UNCHANGED <<wsvars, last, cbs, running, rx, res, main, runs>>

(* on_ping answers first; its callback is skipped when the answer fails, and *)
(* revolt_ws_poll ignores that it failed.                                    *)
on_ping ==
  /\ pc = "dispatch" /\ rx.op = "PING"
  /\ \E r \in Results :
       /\ revoltc_ws_send([op |-> "PONG", data |-> rx.data], r)
       /\ pc' = IF r = "OK" THEN "callback" ELSE "check"
       /\ rx' = IF r = "OK" THEN rx ELSE NoFrame
  /\ UNCHANGED <<tx, last, cbs, running, res, main, runs>>

SlotOf == [CLOSE |-> "close", PING |-> "ping", PONG |-> "pong",
           TEXT |-> "str", BINARY |-> "bin", CONT |-> "none"]

(* The callback of the frame's slot, if there is one: it may queue a message *)
(* or call revolt_stop.  on_text, on_binary and on_pong are no more than it; *)
(* a continuation frame is dropped.  Without one this step only returns.     *)
Callback ==
  /\ pc = "callback" \/ (pc = "dispatch" /\ rx.op \notin {"CLOSE", "PING"})
  /\ pc' = IF rx.op = "CLOSE" THEN "close2" ELSE "check"
  /\ rx' = NoFrame
  /\ \/ UNCHANGED <<tx, last, running>>
     \/ /\ SlotOf[rx.op] \in cbs
        /\ \/ (\E op \in AppOps : revolt_ws_send(op)) /\ UNCHANGED running
           \/ running' = FALSE /\ UNCHANGED <<tx, last>>
  /\ UNCHANGED <<wsvars, cbs, res, main, runs>>

-----------------------------------------------------------------------------
(* The main thread: it prepares the client, runs it on a thread of its own,  *)
(* stops it at some time, joins the thread, and then runs it again or cleans *)
(* up.                                                                       *)
MainSetOn ==
  /\ main = "setup"
  /\ \E slot \in Slots : revolt_ws_set_on(slot)
  /\ UNCHANGED <<wsvars, tx, last, running, pc, rx, res, main, runs>>

MainSend ==
  /\ main = "setup"
  /\ \E op \in AppOps : revolt_ws_send(op)
  /\ UNCHANGED <<wsvars, cbs, running, pc, rx, res, main, runs>>

MainSpawn ==
  /\ main = "setup" /\ main' = "wait"
  /\ runs < MaxRuns /\ runs' = runs + 1
  /\ pc' = "connect"
  /\ UNCHANGED <<wsvars, tx, last, cbs, running, rx, res>>

revolt_stop ==
  /\ main = "wait" /\ main' = "join"
  /\ running' = FALSE
  /\ UNCHANGED <<wsvars, tx, last, cbs, pc, rx, res, runs>>

(* Faulty: does not wait for the thread. *)
JoinsNothing ==
  /\ main = "join" /\ main' = "joined"
  /\ UNCHANGED <<wsvars, tx, last, cbs, running, pc, rx, res, runs>>

MainJoin ==
  /\ main = "join" /\ main' = "joined"
  /\ pc = "exit"
  /\ UNCHANGED <<wsvars, tx, last, cbs, running, pc, rx, res, runs>>

MainAgain ==
  /\ main = "joined" /\ main' = "setup"
  /\ runs < MaxRuns
  /\ UNCHANGED <<wsvars, tx, last, cbs, running, pc, rx, res, runs>>

(* revolt_cleanup frees the stack with whatever is still in it.              *)
revolt_cleanup ==
  /\ main = "joined" /\ main' = "done"
  /\ running' = FALSE
  /\ tx' = <<>>
  /\ \E r \in Results : revoltc_ws_delete(r)
  /\ UNCHANGED <<last, cbs, pc, rx, res, runs>>

MainDone == main = "done" /\ UNCHANGED vars

-----------------------------------------------------------------------------
Connecting == RunConnect \/ PollReconnect

Running ==
  \/ RunAuthenticate \/ PollReauthenticate
  \/ RunStart \/ RunCheck \/ RunStop
  \/ PollSend \/ PollReceive \/ PollDropParse \/ PollDrop
  \/ on_close \/ on_close_end \/ on_ping \/ Callback

Main ==
  \/ MainSetOn \/ MainSend \/ MainSpawn \/ revolt_stop
  \/ MainJoin \/ MainAgain \/ revolt_cleanup \/ MainDone

PeerStep == Peer /\ UNCHANGED loopvars

Next == Connecting \/ Running \/ Main \/ PeerStep

(* The run thread is inside a receive that may never return: the peer has    *)
(* stopped in the middle of a frame, or the reader has lost its place.       *)
Stalled ==
  /\ pc \in {"rx", "dispatch", "close2", "drop_parse", "drop"}
  /\ hnd # NULL
  /\ Spinning(hnd) \/ (hs[hnd] = "up" /\ ~insync[hnd])

(* The operating system runs the run thread and completes pthread_join.      *)
(* Nothing makes connect return (the handshake too loops until the server    *)
(* answers), nor a stalled receive, nor the user ask to stop.                *)
Fairness == WF_vars(Running /\ ~Stalled) /\ WF_vars(MainJoin)

Spec == Init /\ [][Next]_vars /\ Fairness

=============================================================================
