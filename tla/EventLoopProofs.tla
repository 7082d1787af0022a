--------------------------- MODULE EventLoopProofs ---------------------------
(***************************************************************************)
(* The event loop for any handles, messages, answers and bounds.  First    *)
(* its types, then that it uses Websocket as its callers may, so that all  *)
(* that WebsocketProofs shows of a connection holds of the loop; then what *)
(* the loop writes: tokens, messages, and at last the answers to pings.    *)
(***************************************************************************)
EXTENDS EventLoopProps, WebsocketProofs, FiniteSetTheorems

Entries == [op : AppOps, data : Msgs]
Pcs == InLoop \cup {"idle", "connect", "auth", "start", "stop", "exit"}

LEMMA PopOne ==
  ASSUME NEW S, NEW s \in Seq(S), s # <<>>
  PROVE  /\ SubSeq(s, 1, Len(s) - 1) \in Seq(S)
         /\ Len(s) \in Nat /\ Len(s) >= 1 /\ s[Len(s)] \in S
         /\ Len(SubSeq(s, 1, Len(s) - 1)) = Len(s) - 1
         /\ \A i \in 1 .. Len(s) - 1 : SubSeq(s, 1, Len(s) - 1)[i] = s[i]
<1>1. Len(s) \in Nat /\ Len(s) >= 1 /\ s[Len(s)] \in S
  OBVIOUS
<1>2. SubSeq(s, 1, Len(s) - 1) = [i \in 1 .. Len(s) - 1 |-> s[i]]
  BY <1>1
<1>3. \A i \in 1 .. Len(s) - 1 : s[i] \in S
  OBVIOUS
<1> DEFINE n == Len(s) - 1
           front == [i \in 1 .. n |-> s[i]]
<1>4. n \in Nat /\ front \in [1 .. n -> S]
  BY <1>1, <1>3
<1>5. /\ n \in Nat /\ SubSeq(s, 1, n) = front
      /\ front \in Seq(S) /\ Len(front) = n
      /\ \A i \in 1 .. n : front[i] = s[i]
  <2>1. front \in Seq(S) /\ Len(front) = n
    <3> HIDE DEF n
    <3> QED
      BY <1>4
  <2> QED
    BY <1>2, <1>4, <2>1
<1> QED
  BY <1>1, <1>5

(* The stack and the messages accepted.                                     *)
StackType == tx \in Seq(Entries) /\ Len(tx) <= TxSize /\ last \in 0 .. MaxMsgs

LEMMA StackInit == Init => StackType
<1>1. <<>> \in Seq(Entries) /\ Len(<<>>) = 0
  OBVIOUS
<1> QED
  BY <1>1, LoopBounds DEF Init, StackType

LEMMA PushType ==
  ASSUME StackType, NEW op \in AppOps, revolt_ws_send(op)
  PROVE  StackType'
<1> DEFINE e == [op |-> op, data |-> last + 1]
<1>1. last \in Nat /\ last < MaxMsgs /\ MaxMsgs \in Nat /\ TxSize \in Nat
  BY LoopBounds DEF StackType, revolt_ws_send
<1>2. last + 1 \in Msgs /\ last' = last + 1
  BY <1>1 DEF Msgs, revolt_ws_send
<1>3. e \in Entries
  BY <1>2 DEF Entries
<1>4. tx' = Append(tx, e) /\ Len(tx) < TxSize /\ tx \in Seq(Entries)
  BY DEF revolt_ws_send, StackType
<1> HIDE DEF e
<1>5. Append(tx, e) \in Seq(Entries) /\ Len(tx) \in Nat /\ Len(Append(tx, e)) = Len(tx) + 1
  BY <1>3, <1>4, AppendOne
<1>6. Len(tx') <= TxSize
  BY <1>1, <1>4, <1>5
<1>7. last' \in 0 .. MaxMsgs
  BY <1>1, <1>2
<1> QED
  BY <1>4, <1>5, <1>6, <1>7 DEF StackType

LEMMA StackStep == StackType /\ [Next]_vars => StackType'
<1> SUFFICES ASSUME StackType, [Next]_vars PROVE StackType'
  OBVIOUS
<1>1. CASE UNCHANGED <<tx, last>>
  BY <1>1 DEF StackType
<1>2. CASE PollSend
  <2>1. UNCHANGED last /\ (tx' = tx \/ (tx # <<>> /\ tx' = SubSeq(tx, 1, Len(tx) - 1)))
    BY <1>2 DEF PollSend
  <2>2. tx # <<>> => /\ SubSeq(tx, 1, Len(tx) - 1) \in Seq(Entries)
                     /\ Len(tx) \in Nat
                     /\ Len(SubSeq(tx, 1, Len(tx) - 1)) = Len(tx) - 1
    BY PopOne DEF StackType
  <2> QED
    BY <1>1, <2>1, <2>2, LoopBounds DEF StackType
<1>3. CASE revolt_cleanup
  <2>1. tx' = <<>> /\ last' = last
    BY <1>3 DEF revolt_cleanup
  <2>2. <<>> \in Seq(Entries) /\ Len(<<>>) = 0
    OBVIOUS
  <2> QED
    BY <2>1, <2>2, LoopBounds DEF StackType
<1>4. CASE Callback \/ MainSend
  BY <1>1, <1>4, PushType DEF Callback, MainSend
<1>5. CASE Connecting
  BY <1>1, <1>5 DEF Connecting, RunConnect, PollReconnect, ConnectAt
<1>6. CASE Running
  BY <1>1, <1>2, <1>4, <1>6
  DEF Running, RunAuthenticate, PollReauthenticate, AuthenticateAt, RunStart, RunCheck,
      RunStop, PollReceive, PollDropParse, PollDrop, on_close, on_close_end, DisconnectAt,
      on_ping
<1>7. CASE Main
  BY <1>1, <1>3, <1>4, <1>7
  DEF Main, MainSetOn, MainSpawn, revolt_stop, MainJoin, MainAgain, MainDone, vars, loopvars
<1>8. CASE PeerStep \/ UNCHANGED vars
  BY <1>1, <1>8 DEF PeerStep, vars, loopvars
<1> QED
  BY <1>5, <1>6, <1>7, <1>8 DEF Next

(* Where the threads are, and the rest.                                     *)
PlaceType ==
  /\ running \in BOOLEAN
  /\ pc \in Pcs
  /\ rx \in Replies \cup {NoFrame}
  /\ res \in Results
  /\ main \in {"setup", "wait", "join", "joined", "done"}

LEMMA PlaceStep == PlaceType /\ [Next]_vars => PlaceType'
<1> SUFFICES ASSUME PlaceType, [Next]_vars PROVE PlaceType'
  OBVIOUS
<1> USE DEF PlaceType, Pcs, InLoop
<1>1. running' \in BOOLEAN
  BY Zenon
  DEF Next, Connecting, RunConnect, PollReconnect, ConnectAt, Running, RunAuthenticate,
      PollReauthenticate, AuthenticateAt, RunStart, RunCheck, RunStop, PollSend, PollReceive,
      PollDropParse, PollDrop, on_close, on_close_end, DisconnectAt, on_ping, Callback, Main,
      MainSetOn, MainSend, MainSpawn, revolt_stop, MainJoin, MainAgain, revolt_cleanup,
      MainDone, PeerStep, vars, loopvars
<1>2. CASE Connecting
  BY <1>1, <1>2 DEF Connecting, RunConnect, PollReconnect, ConnectAt
<1>3. CASE Running
  <2>1. CASE RunAuthenticate \/ PollReauthenticate
    BY <1>1, <2>1 DEF RunAuthenticate, PollReauthenticate, AuthenticateAt
  <2>2. CASE RunStart \/ RunCheck \/ RunStop
    BY <1>1, <2>2 DEF RunStart, RunCheck, RunStop
  <2>3. CASE PollSend
    BY <1>1, <2>3 DEF PollSend
  <2>4. CASE PollReceive
    BY <1>1, <2>4 DEF PollReceive, AfterReceive, Results
  <2>5. CASE PollDropParse \/ PollDrop \/ on_close \/ on_close_end
    BY <1>1, <2>5 DEF PollDropParse, PollDrop, on_close, on_close_end, DisconnectAt
  <2>6. CASE on_ping \/ Callback
    BY <1>1, <2>6 DEF on_ping, Callback
  <2> QED
    BY <1>3, <2>1, <2>2, <2>3, <2>4, <2>5, <2>6 DEF Running
<1>4. CASE Main
  BY <1>1, <1>4
  DEF Main, MainSetOn, MainSend, MainSpawn, revolt_stop, MainJoin, MainAgain,
      revolt_cleanup, MainDone, vars, loopvars
<1>5. CASE PeerStep \/ UNCHANGED vars
  BY <1>5 DEF PeerStep, vars, loopvars
<1> QED
  BY <1>2, <1>3, <1>4, <1>5 DEF Next

LEMMA SetupType ==
  ASSUME cbs \in SUBSET Slots, runs \in 0 .. MaxRuns, [Next]_vars
  PROVE  cbs' \in SUBSET Slots /\ runs' \in 0 .. MaxRuns
<1>1. CASE UNCHANGED <<cbs, runs>>
  BY <1>1
<1>2. CASE MainSetOn
  BY <1>2 DEF MainSetOn, revolt_ws_set_on
<1>3. CASE MainSpawn
  BY <1>3, LoopBounds DEF MainSpawn
<1>4. CASE Connecting
  BY <1>1, <1>4 DEF Connecting, RunConnect, PollReconnect, ConnectAt
<1>5. CASE Running
  BY <1>1, <1>5
  DEF Running, RunAuthenticate, PollReauthenticate, AuthenticateAt, RunStart, RunCheck,
      RunStop, PollSend, PollReceive, PollDropParse, PollDrop, on_close, on_close_end,
      DisconnectAt, on_ping, Callback
<1>6. CASE Main
  BY <1>1, <1>2, <1>3, <1>6
  DEF Main, MainSend, revolt_stop, MainJoin, MainAgain, revolt_cleanup, MainDone, vars,
      loopvars
<1> QED
  BY <1>1, <1>4, <1>5, <1>6 DEF Next, PeerStep, vars, loopvars

LoopTypes == StackType /\ PlaceType /\ cbs \in SUBSET Slots /\ runs \in 0 .. MaxRuns

LEMMA LoopTypesAlways == Spec => []LoopTypes
<1>1. Init => LoopTypes
  <2> SUFFICES ASSUME Init PROVE LoopTypes
    OBVIOUS
  <2>1. PlaceType
    BY DEF Init, PlaceType, Pcs, Results
  <2> QED
    BY <2>1, StackInit, LoopBounds DEF Init, LoopTypes
<1>2. LoopTypes /\ [Next]_vars => LoopTypes'
  BY StackStep, PlaceStep, SetupType DEF LoopTypes
<1> QED
  BY <1>1, <1>2, PTL DEF Spec

-----------------------------------------------------------------------------
(* Who may use the object.  The run thread is in revolt_run only while the   *)
(* main thread waits for it, and the object is freed after that.             *)
Order ==
  /\ gone => main = "done"
  /\ main \in {"setup", "joined", "done"} => pc \in {"idle", "exit"}

(* Only revolt_cleanup frees the object.                                    *)
LEMMA GoneStep == [Next]_vars => gone' = gone \/ revolt_cleanup
<1> SUFFICES ASSUME [Next]_vars PROVE gone' = gone \/ revolt_cleanup
  OBVIOUS
<1> USE DEF wsvars
<1>1. CASE Connecting
  BY <1>1 DEF Connecting, RunConnect, PollReconnect, ConnectAt, revoltc_ws_connect
<1>2. CASE Running
  BY <1>2
  DEF Running, RunAuthenticate, PollReauthenticate, AuthenticateAt, RunStart, RunCheck,
      RunStop, PollSend, PollReceive, PollDropParse, PollDrop, on_close, on_close_end,
      DisconnectAt, on_ping, Callback, revoltc_ws_send, revoltc_ws_recv,
      revoltc_ws_disconnect
<1>3. CASE Main
  BY <1>3
  DEF Main, MainSetOn, MainSend, MainSpawn, revolt_stop, MainJoin, MainAgain, MainDone, vars
<1>4. CASE PeerStep
  BY <1>4 DEF PeerStep, Peer, ServerBegins, ServerSends, ServerDrops
<1> QED
  BY <1>1, <1>2, <1>3, <1>4 DEF Next, vars

(* Where the run thread goes, and when.                                     *)
LEMMA RunThread ==
  ASSUME LoopTypes, Connecting \/ Running
  PROVE  pc \notin {"idle", "exit"} /\ main' = main
<1>1. NoFrame.op \notin {"CLOSE", "PING"}
  BY DEF NoFrame
<1> QED
  BY <1>1
  DEF Connecting, RunConnect, PollReconnect, ConnectAt, Running, RunAuthenticate,
      PollReauthenticate, AuthenticateAt, RunStart, RunCheck, RunStop, PollSend, PollReceive,
      PollDropParse, PollDrop, on_close, on_close_end, DisconnectAt, on_ping, Callback

LEMMA OrderStep == LoopTypes /\ Order /\ [Next]_vars => Order'
<1> SUFFICES ASSUME LoopTypes, Order, [Next]_vars PROVE Order'
  OBVIOUS
<1>1. CASE Connecting \/ Running
  <2>1. ~revolt_cleanup
    BY <1>1, RunThread DEF Order, revolt_cleanup
  <2> QED
    BY <1>1, <2>1, GoneStep, RunThread DEF LoopTypes, PlaceType, Order
<1>2. CASE Main
  BY <1>2, GoneStep
  DEF Order, Main, MainSetOn, MainSend, MainSpawn, revolt_stop, MainJoin, MainAgain,
      revolt_cleanup, MainDone, vars, loopvars
<1>3. CASE PeerStep \/ UNCHANGED vars
  BY <1>3, GoneStep DEF Order, PeerStep, revolt_cleanup, vars, loopvars
<1> QED
  BY <1>1, <1>2, <1>3 DEF Next

LEMMA OrderAlways == Spec => []Order
<1>1. Init => Order
  BY DEF Init, WsInit, Order
<1> QED
  BY <1>1, OrderStep, LoopTypesAlways, PTL DEF Spec

(* What is on the stack may be sent, and so may the answer to a ping.       *)
LEMMA EntryOutgoing ==
  ASSUME StackType, tx # <<>>
  PROVE  tx[Len(tx)] \in Entries /\ tx[Len(tx)] \in Outgoing
  BY PopOne, OutgoingAssumption DEF StackType, Entries

LEMMA PongOutgoing ==
  ASSUME rx \in Replies \cup {NoFrame}, rx.op = "PING"
  PROVE  /\ rx \in Replies
         /\ [op |-> "PONG", data |-> rx.data] \in Outgoing
<1>1. rx \in Replies
  BY DEF NoFrame
<1>2. [rx EXCEPT !.op = "PONG"] = [op |-> "PONG", data |-> rx.data]
  BY <1>1, FramesAssumption
<1> QED
  BY <1>1, <1>2, OutgoingAssumption

LEMMA WsStep == LoopTypes /\ Order /\ [Next]_vars => [WsNext]_wsvars
<1> SUFFICES ASSUME LoopTypes, Order, [Next]_vars PROVE [WsNext]_wsvars
  OBVIOUS
<1>1. CASE Connecting \/ Running
  <2>1. ~gone
    BY <1>1, RunThread DEF Order
  <2>2. ASSUME NEW r \in Results, revoltc_ws_connect(r) PROVE WsNext
    BY <2>1, <2>2 DEF WsNext, Caller
  <2>3. ASSUME NEW f \in Outgoing, NEW r \in Results, revoltc_ws_send(f, r) PROVE WsNext
    BY <2>1, <2>3 DEF WsNext, Caller
  <2>4. ASSUME NEW s \in Status, NEW r \in Results, revoltc_ws_disconnect(s, r) PROVE WsNext
    BY <2>1, <2>4 DEF WsNext, Caller
  <2>5. CASE Connecting
    BY <2>2, <2>5 DEF Connecting, RunConnect, PollReconnect, ConnectAt
  <2>6. CASE RunAuthenticate \/ PollReauthenticate
    <3>1. [op |-> "TEXT", data |-> AUTH] \in Outgoing
      BY OutgoingAssumption
    <3> QED
      BY <2>3, <2>6, <3>1 DEF RunAuthenticate, PollReauthenticate, AuthenticateAt
  <2>7. CASE RunStart \/ RunCheck \/ RunStop \/ Callback
    BY <2>7 DEF RunStart, RunCheck, RunStop, Callback
  <2>8. CASE PollSend
    BY <2>3, <2>8, EntryOutgoing DEF PollSend, LoopTypes
  <2>9. CASE PollReceive
    BY <2>1, <2>9 DEF PollReceive, WsNext, Caller
  <2>10. CASE PollDropParse \/ PollDrop \/ on_close \/ on_close_end
    BY <2>4, <2>10
    DEF PollDropParse, PollDrop, on_close, on_close_end, DisconnectAt, Status
  <2>11. CASE on_ping
    BY <2>3, <2>11, PongOutgoing DEF on_ping, LoopTypes, PlaceType
  <2> QED
    BY <1>1, <2>5, <2>6, <2>7, <2>8, <2>9, <2>10, <2>11 DEF Running
<1>2. CASE revolt_cleanup
  BY <1>2 DEF revolt_cleanup, Order, WsNext, Caller
<1>3. CASE Main /\ ~revolt_cleanup
  BY <1>3
  DEF Main, MainSetOn, MainSend, MainSpawn, revolt_stop, MainJoin, MainAgain, MainDone, vars
<1>4. CASE PeerStep
  BY <1>4 DEF PeerStep, WsNext
<1> QED
  BY <1>1, <1>2, <1>3, <1>4 DEF Next, vars

(* The two threads use the connection as one caller would, and not after it  *)
(* is freed (ws.c, client.c).                                                *)
THEOREM UsesWebsocketThm == Spec => UsesWebsocket
<1>1. Init => WsInit
  BY DEF Init
<1> QED
  BY <1>1, WsStep, LoopTypesAlways, OrderAlways, PTL DEF Spec, UsesWebsocket

LEMMA SpecIsWs == Spec => WsSpec
  BY UsesWebsocketThm DEF UsesWebsocket, WsSpec

(* Types of the loop and of the connection under it.                        *)
THEOREM LoopTypesThm == Spec => []TypeOK
<1>1. LoopTypes /\ WsTypeOK => TypeOK
  BY DEF LoopTypes, TypeOK, LoopTypeOK, StackType, PlaceType, Entries, Pcs
<1> QED
  BY <1>1, LoopTypesAlways, SpecIsWs, WsTypeCorrect, PTL

(* revolt_cleanup leaves no connection open.                                *)
THEOREM LoopReleasesThm == Spec => []DeleteReleases
  BY SpecIsWs, DeleteReleasesAlways, PTL

-----------------------------------------------------------------------------
(* What a step writes, and when.  While the run thread polls, it goes on     *)
(* with the connection it has, unless that has been authenticated just now;  *)
(* and it does not go on after it has written a part of its own frames.      *)
Polling == {"start", "check", "tx", "rx", "dispatch", "callback", "close2",
            "drop_parse", "drop"}
Authenticate == [op |-> "TEXT", data |-> AUTH]

Quiet ==
  /\ wire' = wire
  /\ pc' \in Polling /\ connected' => pc \in Polling /\ connected /\ hnd' = hnd
Closes ==
  /\ ~connected'
  /\ \E s \in Status, whole \in BOOLEAN :
       wire' = Written([op |-> "CLOSE", data |-> s], whole)
Writes(f, whole) ==
  /\ connected /\ UNCHANGED <<hnd, connected>>
  /\ Len(wire[hnd]) < MaxWire
  /\ wire' = Written(f, whole)
Authenticates ==
  \E whole \in BOOLEAN :
    Writes(Authenticate, whole) /\ pc \in {"auth", "reauth"} /\ (pc' \in Polling => whole)
Transmits ==
  \E whole \in BOOLEAN :
    /\ pc = "tx" /\ tx # <<>>
    /\ Writes(tx[Len(tx)], whole) /\ (pc' \in Polling => whole)
Pongs ==
  \E whole \in BOOLEAN :
    /\ pc = "dispatch" /\ rx.op = "PING"
    /\ Writes([op |-> "PONG", data |-> rx.data], whole)

LEMMA SendWrites ==
  ASSUME NEW f, NEW r, revoltc_ws_send(f, r)
  PROVE  /\ UNCHANGED <<hnd, connected>>
         /\ \/ wire' = wire /\ r # "OK"
            \/ Writes(f, TRUE) /\ r = "OK"
            \/ Writes(f, FALSE) /\ r = "SEND"
  BY DEF revoltc_ws_send, ws_send_raw, Writes

LEMMA DisconnectWrites ==
  ASSUME NEW s \in Status, NEW r, Disconnect(s, r)
  PROVE  Closes \/ (wire' = wire /\ (~connected' \/ UNCHANGED <<hnd, connected>>))
  BY DEF Disconnect, Cleanup, ws_send_raw, Closes

LEMMA LoopWrites ==
  LoopTypes /\ Order /\ [Next]_vars => Quiet \/ Closes \/ Authenticates \/ Transmits \/ Pongs
<1> SUFFICES ASSUME LoopTypes, Order, [Next]_vars
             PROVE  Quiet \/ Closes \/ Authenticates \/ Transmits \/ Pongs
  OBVIOUS
<1>1. CASE Connecting
  BY <1>1
  DEF Connecting, RunConnect, PollReconnect, ConnectAt, revoltc_ws_connect, Quiet, Polling
<1>2. CASE RunAuthenticate \/ PollReauthenticate
  <2>1. PICK r \in Results :
          /\ pc \in {"auth", "reauth"}
          /\ revoltc_ws_send(Authenticate, r) \/ (r = "NOMEM" /\ UNCHANGED wsvars)
          /\ pc' \in Polling => r = "OK"
    BY <1>2 DEF RunAuthenticate, PollReauthenticate, AuthenticateAt, Authenticate, Polling
  <2>2. CASE revoltc_ws_send(Authenticate, r)
    BY <2>1, <2>2, SendWrites DEF Quiet, Authenticates
  <2>3. CASE r = "NOMEM" /\ UNCHANGED wsvars
    BY <2>1, <2>3 DEF Quiet, wsvars
  <2> QED
    BY <2>1, <2>2, <2>3
<1>3. CASE RunStart \/ RunCheck \/ RunStop \/ Callback
  BY <1>3 DEF RunStart, RunCheck, RunStop, Callback, wsvars, Quiet, Polling
<1>4. CASE PollSend
  <2>1. CASE UNCHANGED wsvars
    BY <1>4, <2>1 DEF PollSend, Quiet, wsvars, Polling
  <2>2. CASE tx # <<>> /\ \E r \in Results : /\ revoltc_ws_send(tx[Len(tx)], r)
                                            /\ pc' = IF r = "OK" THEN "rx" ELSE "stop"
    <3>1. PICK r \in Results : /\ revoltc_ws_send(tx[Len(tx)], r)
                               /\ pc' = IF r = "OK" THEN "rx" ELSE "stop"
      BY <2>2
    <3>2. pc = "tx" /\ (pc' \in Polling => r = "OK")
      BY <1>4, <3>1 DEF PollSend, Polling
    <3> QED
      BY <2>2, <3>1, <3>2, SendWrites DEF Quiet, Transmits
  <2> QED
    BY <1>4, <2>1, <2>2 DEF PollSend
<1>5. CASE PollReceive
  BY <1>5 DEF PollReceive, revoltc_ws_recv, Quiet, Polling
<1>6. CASE PollDropParse \/ PollDrop \/ on_close \/ on_close_end
  <2>1. PICK s \in Status, r \in Results : Disconnect(s, r)
    BY <1>6
    DEF PollDropParse, PollDrop, on_close, on_close_end, DisconnectAt, Status,
        revoltc_ws_disconnect
  <2>2. pc \in Polling
    BY <1>6 DEF PollDropParse, PollDrop, on_close, on_close_end, DisconnectAt, Polling
  <2> QED
    BY <2>1, <2>2, DisconnectWrites DEF Quiet
<1>7. CASE on_ping
  <2>1. PICK r \in Results : revoltc_ws_send([op |-> "PONG", data |-> rx.data], r)
    BY <1>7 DEF on_ping
  <2>2. pc = "dispatch" /\ rx.op = "PING"
    BY <1>7 DEF on_ping
  <2> QED
    BY <2>1, <2>2, SendWrites DEF Quiet, Pongs, Polling
<1>8. CASE revolt_cleanup
  <2>1. PICK r \in Results : Disconnect(NORMAL, r)
    BY <1>8 DEF revolt_cleanup, revoltc_ws_delete
  <2>2. pc' = pc /\ pc \notin Polling
    BY <1>8 DEF revolt_cleanup, Order, Polling
  <2> QED
    BY <2>1, <2>2, DisconnectWrites DEF Quiet, Status
<1>9. CASE Main /\ ~revolt_cleanup
  BY <1>9
  DEF Main, MainSetOn, MainSend, MainSpawn, revolt_stop, MainJoin, MainAgain, MainDone,
      vars, loopvars, wsvars, Quiet, Polling
<1>10. CASE PeerStep \/ UNCHANGED vars
  BY <1>10
  DEF PeerStep, Peer, ServerBegins, ServerSends, ServerDrops, vars, loopvars, wsvars, Quiet
<1> QED
  BY <1>1, <1>2, <1>3, <1>4, <1>5, <1>6, <1>7, <1>8, <1>9, <1>10 DEF Next, Running

-----------------------------------------------------------------------------
(* A connection has a handle.                                               *)
Held == connected => hnd \in Handles

LEMMA HeldAlways == Spec => []Held
<1>1. WsInit => Held
  BY DEF WsInit, Held
<1>2. Held /\ [WsNext]_wsvars => Held'
  <2> SUFFICES ASSUME Held, [WsNext]_wsvars PROVE Held'
    OBVIOUS
  <2>1. ASSUME NEW s, NEW r, Disconnect(s, r) PROVE Held'
    BY <2>1 DEF Disconnect, Cleanup, Held
  <2>2. CASE Caller
    BY <2>1, <2>2
    DEF Caller, revoltc_ws_connect, revoltc_ws_send, revoltc_ws_recv,
        revoltc_ws_disconnect, revoltc_ws_delete, Held
  <2>3. CASE Peer \/ UNCHANGED wsvars
    BY <2>3 DEF Peer, ServerBegins, ServerSends, ServerDrops, wsvars, Held
  <2> QED
    BY <2>2, <2>3 DEF WsNext
<1> QED
  BY <1>1, <1>2, SpecIsWs, PTL DEF WsSpec

(* One frame more on the current connection.                                *)
LEMMA WrittenAt ==
  ASSUME WireType, hnd \in Handles, NEW op \in Opcodes, NEW data \in Data \cup Status,
         NEW whole \in BOOLEAN, wire' = Written([op |-> op, data |-> data], whole)
  PROVE  /\ Len(wire[hnd]) \in Nat /\ Len(wire'[hnd]) = Len(wire[hnd]) + 1
         /\ \A i \in 1 .. Len(wire[hnd]) : wire'[hnd][i] = wire[hnd][i]
         /\ wire'[hnd][Len(wire[hnd]) + 1] = [op |-> op, data |-> data, whole |-> whole]
         /\ \A h \in Handles \ {hnd} : wire'[h] = wire[h]
<1> DEFINE e == [op |-> op, data |-> data, whole |-> whole]
           w == wire[hnd]
<1>1. e \in Sent /\ w \in Seq(Sent)
  BY DEF Sent, WireType
<1>2. wire' = [wire EXCEPT ![hnd] = Append(w, e)]
  BY DEF Written
<1>3. wire'[hnd] = Append(w, e) /\ \A h \in Handles \ {hnd} : wire'[h] = wire[h]
  BY <1>2 DEF WireType
<1> HIDE DEF e, w
<1>4. /\ Len(w) \in Nat /\ Len(Append(w, e)) = Len(w) + 1
      /\ \A i \in 1 .. Len(w) : Append(w, e)[i] = w[i]
      /\ Append(w, e)[Len(w) + 1] = e
  BY <1>1
<1> QED
  BY <1>3, <1>4 DEF e, w

(* What can be written is typed, and a queued message is neither the token   *)
(* nor a pong.                                                              *)
LEMMA WrittenKinds ==
  ASSUME LoopTypes, NEW f, NEW whole \in BOOLEAN,
         \/ \E s \in Status : f = [op |-> "CLOSE", data |-> s]
         \/ f = Authenticate
         \/ tx # <<>> /\ f = tx[Len(tx)]
         \/ rx.op = "PING" /\ f = [op |-> "PONG", data |-> rx.data]
  PROVE  /\ f = [op |-> f.op, data |-> f.data]
         /\ f.op \in Opcodes /\ f.data \in Data \cup Status
<1>1. CASE \E s \in Status : f = [op |-> "CLOSE", data |-> s]
  BY <1>1 DEF Opcodes
<1>2. CASE f = Authenticate
  BY <1>2, DataAssumption DEF Authenticate, Opcodes
<1>3. CASE tx # <<>> /\ f = tx[Len(tx)]
  <2>1. f \in Entries
    BY <1>3, EntryOutgoing DEF LoopTypes
  <2> QED
    BY <2>1, DataAssumption DEF Entries
<1>4. CASE rx.op = "PING" /\ f = [op |-> "PONG", data |-> rx.data]
  <2>1. rx \in Replies
    BY <1>4, PongOutgoing DEF LoopTypes, PlaceType
  <2> QED
    BY <1>4, <2>1, FramesAssumption DEF Opcodes
<1> QED
  BY <1>1, <1>2, <1>3, <1>4

(* While the run thread polls a connection, it has authenticated there, and  *)
(* the last frame went out whole or was a pong.                             *)
Authed(h) == \E j \in 1 .. Len(wire[h]) : IsAuth(wire[h][j]) /\ wire[h][j].whole
LastWhole(h) ==
  LET n == Len(wire[h]) IN n > 0 => wire[h][n].whole \/ wire[h][n].op = "PONG"
PollsAuthed == pc \in Polling /\ connected => Authed(hnd)
PollsWhole == pc \in Polling /\ connected => LastWhole(hnd)

LoopInv == LoopTypes /\ Order /\ Held /\ WsTypeOK

LEMMA LoopInvAlways == Spec => []LoopInv
  BY LoopTypesAlways, OrderAlways, HeldAlways, SpecIsWs, WsTypeCorrect, PTL DEF LoopInv

(* The frame a step writes, if any.                                         *)
Adds(op, data, whole) ==
  /\ hnd \in Handles
  /\ op \in Opcodes /\ data \in Data \cup Status /\ whole \in BOOLEAN
  /\ Len(wire[hnd]) \in Nat /\ Len(wire'[hnd]) = Len(wire[hnd]) + 1
  /\ \A i \in 1 .. Len(wire[hnd]) : wire'[hnd][i] = wire[hnd][i]
  /\ wire'[hnd][Len(wire[hnd]) + 1] = [op |-> op, data |-> data, whole |-> whole]
  /\ \A h \in Handles \ {hnd} : wire'[h] = wire[h]

LEMMA StepAdds ==
  ASSUME LoopInv, [Next]_vars
  PROVE  \/ Quiet
         \/ /\ ~connected'
            /\ \/ wire' = wire
               \/ \E s \in Status, whole \in BOOLEAN : Adds("CLOSE", s, whole)
         \/ /\ connected /\ UNCHANGED <<hnd, connected>>
            /\ Len(wire[hnd]) < MaxWire
            /\ \E whole \in BOOLEAN :
                 \/ /\ Adds("TEXT", AUTH, whole)
                    /\ pc \in {"auth", "reauth"} /\ (pc' \in Polling => whole)
                 \/ /\ Adds(tx[Len(tx)].op, tx[Len(tx)].data, whole)
                    /\ tx # <<>> /\ pc = "tx" /\ (pc' \in Polling => whole)
                 \/ /\ Adds("PONG", rx.data, whole)
                    /\ pc = "dispatch" /\ rx.op = "PING"
<1>1. ASSUME NEW f, NEW whole \in BOOLEAN,
             \/ \E s \in Status : f = [op |-> "CLOSE", data |-> s]
             \/ f = Authenticate
             \/ tx # <<>> /\ f = tx[Len(tx)]
             \/ rx.op = "PING" /\ f = [op |-> "PONG", data |-> rx.data],
             wire' = Written(f, whole), hnd \in Handles
      PROVE  Adds(f.op, f.data, whole)
  <2>1. /\ f = [op |-> f.op, data |-> f.data]
        /\ f.op \in Opcodes /\ f.data \in Data \cup Status
    BY <1>1, WrittenKinds DEF LoopInv
  <2>2. WireType /\ wire' = Written([op |-> f.op, data |-> f.data], whole)
    BY <1>1, <2>1 DEF LoopInv, WsTypeOK
  <2> QED
    BY <1>1, <2>1, <2>2, WrittenAt DEF Adds
<1>2. CASE Closes
  <2>1. PICK s \in Status, whole \in BOOLEAN :
          wire' = Written([op |-> "CLOSE", data |-> s], whole)
    BY <1>2 DEF Closes
  <2>2. CASE hnd \in Handles
    BY <1>1, <1>2, <2>1, <2>2 DEF Closes
  <2>3. CASE hnd \notin Handles
    <3>1. wire' = wire
      BY <2>1, <2>3 DEF Written, LoopInv, WsTypeOK, WireType
    <3> QED
      BY <1>2, <3>1 DEF Closes
  <2> QED
    BY <2>2, <2>3
<1>3. CASE Authenticates
  BY <1>1, <1>3 DEF Authenticates, Writes, LoopInv, Held, Authenticate
<1>4. CASE Transmits
  BY <1>1, <1>4 DEF Transmits, Writes, LoopInv, Held
<1>5. CASE Pongs
  BY <1>1, <1>5 DEF Pongs, Writes, LoopInv, Held
<1> QED
  BY <1>2, <1>3, <1>4, <1>5, LoopWrites DEF LoopInv

LEMMA AuthedKept ==
  ASSUME NEW h \in Handles, Authed(h),
         wire'[h] = wire[h] \/ \E op, data, whole : Adds(op, data, whole)
  PROVE  Authed(h)'
<1>1. CASE wire'[h] = wire[h]
  BY <1>1 DEF Authed
<1>2. CASE \E op, data, whole : Adds(op, data, whole)
  <2>1. PICK op, data, whole : Adds(op, data, whole)
    BY <1>2
  <2>2. CASE h = hnd
    <3>1. PICK j \in 1 .. Len(wire[h]) : IsAuth(wire[h][j]) /\ wire[h][j].whole
      BY DEF Authed
    <3>2. j \in 1 .. Len(wire'[h]) /\ wire'[h][j] = wire[h][j]
      BY <2>1, <2>2, <3>1 DEF Adds
    <3> QED
      BY <3>1, <3>2 DEF Authed, IsAuth
  <2>3. CASE h # hnd
    BY <1>1, <2>1, <2>3 DEF Adds
  <2> QED
    BY <2>2, <2>3
<1> QED
  BY <1>1, <1>2

LEMMA PollsAuthedStep ==
  ASSUME LoopInv, PollsAuthed, PollsWhole, [Next]_vars
  PROVE  PollsAuthed' /\ PollsWhole'
<1> DEFINE Goal == PollsAuthed' /\ PollsWhole'
<1>1. CASE ~(pc' \in Polling /\ connected')
  BY <1>1 DEF PollsAuthed, PollsWhole
<1>2. CASE pc' \in Polling /\ connected' /\ Quiet
  <2>1. pc \in Polling /\ connected /\ hnd' = hnd /\ wire' = wire
    BY <1>2 DEF Quiet
  <2> QED
    BY <2>1 DEF PollsAuthed, PollsWhole, Authed, LastWhole
<1>3. ASSUME pc' \in Polling, NEW whole \in BOOLEAN, Adds("TEXT", AUTH, whole),
             UNCHANGED <<hnd, connected>>, whole
      PROVE  Goal
  <2> DEFINE n == Len(wire'[hnd])
  <2>1. /\ n \in 1 .. n /\ Len(wire[hnd]) + 1 = n
        /\ wire'[hnd][n] = [op |-> "TEXT", data |-> AUTH, whole |-> whole]
    BY <1>3 DEF Adds
  <2>2. wire'[hnd][n].data = AUTH /\ wire'[hnd][n].whole
    BY <1>3, <2>1
  <2> QED
    BY <1>3, <2>1, <2>2 DEF PollsAuthed, PollsWhole, Authed, LastWhole, IsAuth
<1>4. ASSUME pc \in Polling, connected, UNCHANGED <<hnd, connected>>,
             NEW op, NEW data, NEW whole, Adds(op, data, whole),
             whole \/ op = "PONG"
      PROVE  Goal
  <2>1. hnd \in Handles /\ Authed(hnd)
    BY <1>4 DEF PollsAuthed, LoopInv, Held
  <2>2. Authed(hnd)'
    BY <1>4, <2>1, AuthedKept DEF Authed
  <2> DEFINE n == Len(wire'[hnd])
  <2>3. wire'[hnd][n] = [op |-> op, data |-> data, whole |-> whole]
    BY <1>4 DEF Adds
  <2>4. wire'[hnd][n].whole \/ wire'[hnd][n].op = "PONG"
    BY <1>4, <2>3
  <2> QED
    BY <1>4, <2>2, <2>4 DEF PollsAuthed, PollsWhole, LastWhole
<1>5. ASSUME pc' \in Polling, connected', ~Quiet PROVE Goal
  <2>1. PICK whole \in BOOLEAN :
          /\ connected /\ UNCHANGED <<hnd, connected>>
          /\ \/ /\ Adds("TEXT", AUTH, whole)
                /\ pc \in {"auth", "reauth"} /\ (pc' \in Polling => whole)
             \/ /\ Adds(tx[Len(tx)].op, tx[Len(tx)].data, whole)
                /\ tx # <<>> /\ pc = "tx" /\ (pc' \in Polling => whole)
             \/ /\ Adds("PONG", rx.data, whole)
                /\ pc = "dispatch" /\ rx.op = "PING"
    BY <1>5, StepAdds
  <2> QED
    BY <1>3, <1>4, <1>5, <2>1 DEF Polling
<1> QED
  BY <1>1, <1>2, <1>5

LEMMA PollsAuthedAlways == Spec => [](PollsAuthed /\ PollsWhole)
<1>1. Init => PollsAuthed /\ PollsWhole
  BY DEF Init, PollsAuthed, PollsWhole, Polling
<1>2. LoopInv /\ PollsAuthed /\ PollsWhole /\ [Next]_vars => PollsAuthed' /\ PollsWhole'
  BY PollsAuthedStep
<1> QED
  BY <1>1, <1>2, LoopInvAlways, PTL DEF Spec

(* The server hears nothing but the token before a whole token: on every     *)
(* connection, however it came about (revolt_ws_connect, revolt_ws_poll).    *)
THEOREM AuthBeforeTrafficThm == Spec => []AuthBeforeTraffic
<1>1. Init => AuthBeforeTraffic
  BY DEF Init, WsInit, AuthBeforeTraffic
<1>2. ASSUME LoopInv, PollsAuthed, AuthBeforeTraffic, [Next]_vars
      PROVE  AuthBeforeTraffic'
  <2> SUFFICES ASSUME NEW h \in Handles, NEW i \in 1 .. Len(wire'[h]), IsApp(wire'[h][i])
               PROVE  \E j \in 1 .. (i - 1) : IsAuth(wire'[h][j]) /\ wire'[h][j].whole
    BY DEF AuthBeforeTraffic
  <2>1. CASE wire'[h] = wire[h]
    BY <1>2, <2>1 DEF AuthBeforeTraffic
  <2>2. ASSUME h = hnd, NEW op, NEW data, NEW whole, Adds(op, data, whole),
               (op = "CLOSE" \/ data = AUTH) \/ (pc \in Polling /\ connected)
        PROVE  \E j \in 1 .. (i - 1) : IsAuth(wire'[h][j]) /\ wire'[h][j].whole
    <3> DEFINE n == Len(wire[h])
    <3>1. /\ n \in Nat /\ Len(wire'[h]) = n + 1
          /\ \A j \in 1 .. n : wire'[h][j] = wire[h][j]
          /\ wire'[h][n + 1] = [op |-> op, data |-> data, whole |-> whole]
      BY <2>2 DEF Adds
    <3>2. CASE i \in 1 .. n
      <4>1. IsApp(wire[h][i])
        BY <3>1, <3>2
      <4>2. PICK j \in 1 .. (i - 1) : IsAuth(wire[h][j]) /\ wire[h][j].whole
        BY <1>2, <3>2, <4>1 DEF AuthBeforeTraffic
      <4>3. j \in 1 .. n
        BY <3>1, <3>2
      <4> QED
        BY <3>1, <4>2, <4>3
    <3>3. CASE i = n + 1
      <4>1. op # "CLOSE" /\ data # AUTH
        BY <3>1, <3>3 DEF IsApp, IsAuth
      <4>2. Authed(h)
        BY <1>2, <2>2, <4>1 DEF PollsAuthed
      <4>3. PICK j \in 1 .. n : IsAuth(wire[h][j]) /\ wire[h][j].whole
        BY <4>2 DEF Authed
      <4>4. j \in 1 .. (i - 1)
        BY <3>1, <3>3
      <4> QED
        BY <3>1, <4>3, <4>4
    <3> QED
      BY <3>1, <3>2, <3>3
  <2>3. CASE wire'[h] # wire[h]
    <3>1. PICK op, data, whole : /\ Adds(op, data, whole)
                                 /\ \/ op = "CLOSE" \/ data = AUTH
                                    \/ pc \in Polling /\ connected
      BY <1>2, <2>3, StepAdds DEF Quiet, Polling
    <3>2. h = hnd
      BY <2>3, <3>1 DEF Adds
    <3> QED
      BY <2>2, <3>1, <3>2
  <2> QED
    BY <2>1, <2>3
<1> QED
  BY <1>1, <1>2, LoopInvAlways, PollsAuthedAlways, PTL DEF Spec

(* Behind a partial frame comes nothing but a CLOSE or the token of a later  *)
(* run, unless it was a pong (revolt_run ends, ws.c 219-284).                *)
THEOREM PartialFrameEndsThm == Spec => []PartialFrameEnds
<1>1. Init => PartialFrameEnds
  BY DEF Init, WsInit, PartialFrameEnds
<1>2. ASSUME LoopInv, PollsWhole, PartialFrameEnds, [Next]_vars
      PROVE  PartialFrameEnds'
  <2> SUFFICES ASSUME NEW h \in Handles, NEW i \in 1 .. (Len(wire'[h]) - 1),
                      ~wire'[h][i].whole
               PROVE  \/ wire'[h][i].op = "PONG"
                      \/ wire'[h][i + 1].op = "CLOSE"
                      \/ IsAuth(wire'[h][i + 1])
    BY DEF PartialFrameEnds
  <2>1. CASE wire'[h] = wire[h]
    BY <1>2, <2>1 DEF PartialFrameEnds
  <2>2. CASE wire'[h] # wire[h]
    <3>1. PICK op, data, whole : /\ Adds(op, data, whole)
                                 /\ \/ op = "CLOSE" \/ data = AUTH
                                    \/ pc \in Polling /\ connected
      BY <1>2, <2>2, StepAdds DEF Quiet, Polling
    <3>2. h = hnd
      BY <2>2, <3>1 DEF Adds
    <3> DEFINE n == Len(wire[h])
    <3>3. /\ n \in Nat /\ i \in 1 .. n
          /\ \A j \in 1 .. n : wire'[h][j] = wire[h][j]
          /\ wire'[h][n + 1] = [op |-> op, data |-> data, whole |-> whole]
      BY <3>1, <3>2 DEF Adds
    <3>4. CASE i < n
      <4>1. i \in 1 .. (n - 1) /\ i + 1 \in 1 .. n
        BY <3>3, <3>4
      <4> QED
        BY <1>2, <3>3, <4>1 DEF PartialFrameEnds, IsAuth
    <3>5. CASE i = n
      <4>1. (op = "CLOSE" \/ data = AUTH) => (wire'[h][i + 1].op = "CLOSE" \/ IsAuth(wire'[h][i + 1]))
        BY <3>3, <3>5 DEF IsAuth
      <4>2. pc \in Polling /\ connected => wire[h][n].whole \/ wire[h][n].op = "PONG"
        BY <1>2, <3>2, <3>3, <3>5 DEF PollsWhole, LastWhole
      <4> QED
        BY <3>1, <3>3, <3>5, <4>1, <4>2
    <3> QED
      BY <3>3, <3>4, <3>5
  <2> QED
    BY <2>1, <2>2
<1> QED
  BY <1>1, <1>2, LoopInvAlways, PollsAuthedAlways, PTL DEF Spec

-----------------------------------------------------------------------------
(* The messages.  While the loop polls, nothing has failed.                 *)
NothingFailed == pc \in Polling \cup {"auth", "reconnect", "reauth"} => res = "OK"

LEMMA NothingFailedAlways == Spec => []NothingFailed
<1>1. Init => NothingFailed
  BY DEF Init, NothingFailed
<1>2. LoopTypes /\ NothingFailed /\ [Next]_vars => NothingFailed'
  <2> SUFFICES ASSUME LoopTypes, NothingFailed, [Next]_vars PROVE NothingFailed'
    OBVIOUS
  <2> USE DEF NothingFailed, Polling
  <2>1. CASE Connecting
    BY <2>1 DEF Connecting, RunConnect, PollReconnect, ConnectAt
  <2>2. CASE RunAuthenticate \/ PollReauthenticate
    BY <2>2 DEF RunAuthenticate, PollReauthenticate, AuthenticateAt
  <2>3. CASE PollSend
    BY <2>3 DEF PollSend
  <2>4. CASE PollReceive
    BY <2>4 DEF PollReceive
  <2>5. CASE RunStart \/ RunCheck \/ RunStop \/ Callback
    BY <2>5 DEF RunStart, RunCheck, RunStop, Callback
  <2>6. CASE PollDropParse \/ PollDrop \/ on_close \/ on_close_end \/ on_ping
    BY <2>6 DEF PollDropParse, PollDrop, on_close, on_close_end, DisconnectAt, on_ping
  <2>7. CASE Main
    BY <2>7
    DEF Main, MainSetOn, MainSend, MainSpawn, revolt_stop, MainJoin, MainAgain,
        revolt_cleanup, MainDone, vars, loopvars
  <2>8. CASE PeerStep \/ UNCHANGED vars
    BY <2>8 DEF PeerStep, vars, loopvars
  <2> QED
    BY <2>1, <2>2, <2>3, <2>4, <2>5, <2>6, <2>7, <2>8 DEF Next, Running
<1> QED
  BY <1>1, <1>2, LoopTypesAlways, PTL DEF Spec

(* What a step does to stack and wire together.                             *)
NoMessage == wire' = wire \/ \E op, data, whole : data \notin Msgs /\ Adds(op, data, whole)
Idles == UNCHANGED <<tx, last>> /\ NoMessage
Accepts ==
  /\ wire' = wire /\ res' = res
  /\ last < MaxMsgs /\ last' = last + 1
  /\ \E op \in AppOps : tx' = Append(tx, [op |-> op, data |-> last + 1])
TakesLast(result, whole) ==
  /\ tx # <<>> /\ tx' = SubSeq(tx, 1, Len(tx) - 1) /\ last' = last
  /\ res = "OK" /\ res' = result
  /\ \/ wire' = wire /\ ~whole
     \/ Adds(tx[Len(tx)].op, tx[Len(tx)].data, whole) /\ Len(wire[hnd]) < MaxWire
  /\ result = "OK" <=> whole
Takes == \E result \in Results, whole \in BOOLEAN : TakesLast(result, whole)
Discards ==
  /\ main # "done" /\ main' = "done"
  /\ tx' = <<>> /\ UNCHANGED <<last, res>> /\ NoMessage

LEMMA OtherWrites ==
  ASSUME LoopInv, [Next]_vars, pc = "tx" => wire' = wire
  PROVE  NoMessage
<1>1. AUTH \notin Msgs /\ \A s \in Status : s \notin Msgs
  BY DataAssumption
<1>2. rx.op = "PING" => rx.data \notin Msgs
  BY PongOutgoing, DataAssumption DEF LoopInv, LoopTypes, PlaceType
<1> QED
  BY <1>1, <1>2, StepAdds DEF NoMessage, Quiet

LEMMA CleanupDiscards ==
  ASSUME LoopInv, revolt_cleanup, [Next]_vars
  PROVE  Discards
<1>1. pc # "tx"
  BY DEF revolt_cleanup, LoopInv, Order
<1> QED
  BY <1>1, OtherWrites DEF revolt_cleanup, Discards

(* Only revolt_cleanup ends the client, and nothing happens to it after.    *)
LEMMA DeletedStep ==
  ASSUME LoopInv, [Next]_vars, ~revolt_cleanup
  PROVE  /\ (main' = "done") <=> (main = "done")
         /\ main = "done" => UNCHANGED <<tx, last, res>>
<1>1. CASE Connecting \/ Running
  <2>1. pc \notin {"idle", "exit"} /\ main' = main
    BY <1>1, RunThread DEF LoopInv
  <2> QED
    BY <2>1 DEF LoopInv, Order
<1>2. CASE Main
  BY <1>2
  DEF Main, MainSetOn, MainSend, MainSpawn, revolt_stop, MainJoin, MainAgain, MainDone,
      vars, loopvars
<1>3. CASE PeerStep \/ UNCHANGED vars
  BY <1>3 DEF PeerStep, vars, loopvars
<1> QED
  BY <1>1, <1>2, <1>3 DEF Next

LEMMA MessageStep ==
  ASSUME LoopInv, NothingFailed, [Next]_vars
  PROVE  Idles \/ Accepts \/ Takes \/ Discards
<1>1. CASE PollSend
  <2>1. CASE tx = <<>>
    BY <1>1, <2>1 DEF PollSend, Idles, NoMessage, wsvars
  <2>2. CASE tx # <<>>
    <3> DEFINE f == tx[Len(tx)]
    <3>1. PICK r \in Results : revoltc_ws_send(f, r) /\ res' = r
      BY <1>1, <2>2 DEF PollSend
    <3>2. /\ tx' = SubSeq(tx, 1, Len(tx) - 1) /\ last' = last
          /\ res = "OK"
      BY <1>1, <2>2 DEF PollSend, NothingFailed, Polling
    <3>3. ASSUME NEW whole \in BOOLEAN, Writes(f, whole)
          PROVE  Adds(f.op, f.data, whole) /\ Len(wire[hnd]) < MaxWire
      <4>1. /\ f = [op |-> f.op, data |-> f.data]
            /\ f.op \in Opcodes /\ f.data \in Data \cup Status
        BY <2>2, WrittenKinds DEF LoopInv
      <4>2. hnd \in Handles /\ wire' = Written([op |-> f.op, data |-> f.data], whole)
        BY <3>3, <4>1 DEF Writes, LoopInv, Held
      <4> QED
        BY <3>3, <4>1, <4>2, WrittenAt DEF Writes, LoopInv, WsTypeOK, Adds
    <3>4. \/ wire' = wire /\ r # "OK"
          \/ Writes(f, TRUE) /\ r = "OK"
          \/ Writes(f, FALSE) /\ r = "SEND"
      BY <3>1, SendWrites
    <3>5. TakesLast(r, TRUE) \/ TakesLast(r, FALSE)
      BY <2>2, <3>1, <3>2, <3>3, <3>4 DEF TakesLast
    <3> QED
      BY <3>5 DEF Takes
  <2> QED
    BY <2>1, <2>2
<1>2. CASE Callback \/ MainSend
  <2>1. wire' = wire /\ res' = res
    BY <1>2 DEF Callback, MainSend, wsvars
  <2>2. UNCHANGED <<tx, last>> \/ \E op \in AppOps : revolt_ws_send(op)
    BY <1>2 DEF Callback, MainSend
  <2> QED
    BY <2>1, <2>2 DEF Idles, NoMessage, Accepts, revolt_ws_send
<1>3. CASE revolt_cleanup
  BY <1>3, CleanupDiscards
<1>4. ASSUME UNCHANGED <<tx, last>>, pc # "tx" \/ wire' = wire
      PROVE  Idles
  BY <1>4, OtherWrites DEF Idles
<1>5. CASE Connecting \/ (Running /\ ~PollSend /\ ~Callback)
  BY <1>4, <1>5
  DEF Connecting, RunConnect, PollReconnect, ConnectAt, Running, RunAuthenticate,
      PollReauthenticate, AuthenticateAt, RunStart, RunCheck, RunStop, PollReceive,
      PollDropParse, PollDrop, on_close, on_close_end, DisconnectAt, on_ping
<1>6. CASE Main /\ ~MainSend /\ ~revolt_cleanup
  BY <1>4, <1>6
  DEF Main, MainSetOn, MainSpawn, revolt_stop, MainJoin, MainAgain, MainDone, vars,
      loopvars, wsvars
<1>7. CASE PeerStep \/ UNCHANGED vars
  BY <1>4, <1>7
  DEF PeerStep, Peer, ServerBegins, ServerSends, ServerDrops, vars, loopvars, wsvars
<1> QED
  BY <1>1, <1>2, <1>3, <1>5, <1>6, <1>7 DEF Next

(* The stack is sorted; a message that was written does not wait any more    *)
(* and was written once.                                                    *)
Sorted == \A i, j \in 1 .. Len(tx) : i < j => tx[i].data < tx[j].data
Known == \A i \in 1 .. Len(tx) : tx[i].data <= last
WrittenKnown ==
  \A h \in Handles : \A i \in 1 .. Len(wire[h]) :
    wire[h][i].data \in Msgs => wire[h][i].data <= last
Apart ==
  \A h \in Handles : \A i \in 1 .. Len(wire[h]) : \A k \in 1 .. Len(tx) :
    wire[h][i].data # tx[k].data
Once ==
  \A g, h \in Handles : \A i \in 1 .. Len(wire[g]) : \A j \in 1 .. Len(wire[h]) :
    wire[g][i].data \in Msgs /\ wire[g][i].data = wire[h][j].data => g = h /\ i = j
MessagesApart == Sorted /\ Known /\ WrittenKnown /\ Apart /\ Once

LEMMA StackElements ==
  ASSUME StackType
  PROVE  /\ Len(tx) \in Nat /\ last \in Nat /\ MaxMsgs \in Nat
         /\ \A i \in 1 .. Len(tx) : tx[i] \in Entries /\ tx[i].data \in 1 .. MaxMsgs
<1>1. \A i \in 1 .. Len(tx) : tx[i] \in Entries
  BY DEF StackType
<1> QED
  BY <1>1, LoopBounds DEF StackType, Entries, Msgs

(* What is on the wire was there before or is the frame just added.         *)
LEMMA OldOrNew ==
  ASSUME NEW op, NEW data, NEW whole, Adds(op, data, whole),
         NEW h \in Handles, NEW i \in 1 .. Len(wire'[h])
  PROVE  \/ i \in 1 .. Len(wire[h]) /\ wire'[h][i] = wire[h][i]
         \/ h = hnd /\ i = Len(wire[hnd]) + 1 /\ wire'[h][i].data = data
<1>1. CASE h # hnd
  BY <1>1 DEF Adds
<1>2. CASE h = hnd
  <2>1. i \in 1 .. Len(wire[hnd]) \/ i = Len(wire[hnd]) + 1
    BY <1>2 DEF Adds
  <2> QED
    BY <1>2, <2>1 DEF Adds
<1> QED
  BY <1>1, <1>2

(* Writing something that is no message keeps the messages apart.           *)
LEMMA OtherKeepsApart ==
  ASSUME LoopInv, WrittenKnown, Once, NoMessage, last' \in Nat, last <= last'
  PROVE  WrittenKnown' /\ Once'
<1>0. last \in Nat /\ \A m \in Msgs : m \in Nat
  BY LoopBounds DEF Msgs, LoopInv, LoopTypes, StackType
<1>3. \A m \in Msgs : m <= last => m <= last'
  BY <1>0
<1>1. CASE wire' = wire
  BY <1>1, <1>3 DEF WrittenKnown, Once
<1>2. ASSUME NEW op, NEW data, NEW whole, data \notin Msgs, Adds(op, data, whole)
      PROVE  WrittenKnown' /\ Once'
  <2>1. \A h \in Handles : \A i \in 1 .. Len(wire'[h]) :
          wire'[h][i].data \in Msgs => i \in 1 .. Len(wire[h]) /\ wire'[h][i] = wire[h][i]
    BY <1>2, OldOrNew
  <2>2. WrittenKnown'
    BY <1>3, <2>1 DEF WrittenKnown, Msgs
  <2>3. Once'
    <3> SUFFICES ASSUME NEW g \in Handles, NEW h \in Handles,
                        NEW i \in 1 .. Len(wire'[g]), NEW j \in 1 .. Len(wire'[h]),
                        wire'[g][i].data \in Msgs, wire'[g][i].data = wire'[h][j].data
                 PROVE  g = h /\ i = j
      BY DEF Once, Msgs
    <3>1. /\ i \in 1 .. Len(wire[g]) /\ wire'[g][i] = wire[g][i]
          /\ j \in 1 .. Len(wire[h]) /\ wire'[h][j] = wire[h][j]
      BY <2>1
    <3> QED
      BY <3>1 DEF Once
  <2> QED
    BY <2>2, <2>3
<1> QED
  BY <1>1, <1>2 DEF NoMessage

LEMMA ApartStep ==
  ASSUME LoopInv, LoopTypes', NothingFailed, MessagesApart, [Next]_vars
  PROVE  MessagesApart'
<1> DEFINE n == Len(tx)
<1>1. /\ n \in Nat /\ last \in Nat /\ MaxMsgs \in Nat /\ last' \in Nat
      /\ \A i \in 1 .. n : tx[i] \in Entries /\ tx[i].data \in 1 .. MaxMsgs
      /\ tx \in Seq(Entries)
  BY StackElements DEF LoopInv, LoopTypes, StackType
<1>2. CASE Idles
  <2>1. WrittenKnown' /\ Once'
    BY <1>1, <1>2, OtherKeepsApart DEF Idles, MessagesApart
  <2>2. Sorted' /\ Known'
    BY <1>2 DEF Idles, MessagesApart, Sorted, Known
  <2>3. Apart'
    <3>1. CASE wire' = wire
      BY <1>2, <3>1 DEF Idles, MessagesApart, Apart
    <3>2. ASSUME NEW op, NEW data, NEW whole, data \notin Msgs, Adds(op, data, whole)
          PROVE  Apart'
      <4>1. \A h \in Handles : \A i \in 1 .. Len(wire'[h]) :
              \/ wire'[h][i].data \notin Msgs
              \/ i \in 1 .. Len(wire[h]) /\ wire'[h][i] = wire[h][i]
        BY <3>2, OldOrNew
      <4>2. \A i \in 1 .. n : tx[i].data \in Msgs
        BY <1>1 DEF Msgs
      <4> QED
        BY <1>2, <4>1, <4>2 DEF Idles, MessagesApart, Apart
    <3> QED
      BY <1>2, <3>1, <3>2 DEF Idles, NoMessage
  <2> QED
    BY <2>1, <2>2, <2>3 DEF MessagesApart
<1>3. CASE Accepts
  <2>1. PICK op \in AppOps : tx' = Append(tx, [op |-> op, data |-> last + 1])
    BY <1>3 DEF Accepts
  <2> DEFINE e == [op |-> op, data |-> last + 1]
  <2>2. wire' = wire /\ last' = last + 1 /\ last < MaxMsgs
    BY <1>3 DEF Accepts
  <2>3. e \in Entries /\ e.data = last + 1
    BY <1>1, <2>2 DEF Entries, Msgs
  <2> HIDE DEF e
  <2>4. /\ Len(tx') = n + 1 /\ tx'[n + 1] = e
        /\ \A i \in 1 .. n : tx'[i] = tx[i]
    BY <1>1, <2>1, <2>3 DEF e
  <2> HIDE DEF n
  <2>5. Known'
    <3> SUFFICES ASSUME NEW i \in 1 .. n + 1 PROVE tx'[i].data <= last + 1
      BY <2>2, <2>4 DEF Known
    <3>1. CASE i \in 1 .. n
      <4>1. tx[i].data <= last /\ tx[i].data \in Nat
        BY <1>1, <3>1 DEF MessagesApart, Known, n
      <4> QED
        BY <1>1, <2>4, <3>1, <4>1
    <3>2. CASE i = n + 1
      BY <1>1, <2>3, <2>4, <3>2
    <3> QED
      BY <1>1, <3>1, <3>2 DEF n
  <2>6. Sorted'
    <3> SUFFICES ASSUME NEW i \in 1 .. n + 1, NEW j \in 1 .. n + 1, i < j
                 PROVE  tx'[i].data < tx'[j].data
      BY <2>4 DEF Sorted
    <3>1. i \in 1 .. n /\ (j \in 1 .. n \/ j = n + 1)
      BY <1>1 DEF n
    <3>2. CASE j \in 1 .. n
      BY <2>4, <3>1, <3>2 DEF MessagesApart, Sorted, n
    <3>3. CASE j = n + 1
      <4>1. tx[i].data <= last /\ tx[i].data \in Nat
        BY <1>1, <3>1 DEF MessagesApart, Known, n
      <4>2. tx'[i] = tx[i] /\ tx'[j].data = last + 1
        BY <2>3, <2>4, <3>1, <3>3
      <4> QED
        BY <1>1, <4>1, <4>2
    <3> QED
      BY <3>1, <3>2, <3>3
  <2>7. WrittenKnown' /\ Once'
    BY <1>1, <2>2, OtherKeepsApart DEF MessagesApart, NoMessage
  <2>8. Apart'
    <3> SUFFICES ASSUME NEW h \in Handles, NEW i \in 1 .. Len(wire[h]),
                        NEW k \in 1 .. n + 1
                 PROVE  wire[h][i].data # tx'[k].data
      BY <2>2, <2>4 DEF Apart
    <3>1. CASE k \in 1 .. n
      BY <2>4, <3>1 DEF MessagesApart, Apart, n
    <3>2. CASE k = n + 1
      <4>1. tx'[k].data = last + 1 /\ last + 1 \in Msgs
        BY <1>1, <2>2, <2>3, <2>4, <3>2 DEF Msgs
      <4> QED
        BY <1>1, <4>1 DEF MessagesApart, WrittenKnown
    <3> QED
      BY <1>1, <3>1, <3>2
  <2> QED
    BY <2>5, <2>6, <2>7, <2>8 DEF MessagesApart
<1>4. CASE Takes
  <2>1. PICK result \in Results, whole \in BOOLEAN : TakesLast(result, whole)
    BY <1>4 DEF Takes
  <2> DEFINE m == tx[n].data
  <2>2. /\ n \in 1 .. n /\ Len(tx') = n - 1 /\ last' = last
        /\ \A i \in 1 .. n - 1 : tx'[i] = tx[i]
        /\ m \in Msgs
    BY <1>1, <2>1, PopOne DEF TakesLast, Msgs
  <2>7. \A i \in 1 .. Len(tx') : i \in 1 .. n /\ i \in 1 .. n - 1 /\ tx'[i] = tx[i]
    BY <1>1, <2>2
  <2>3. Sorted' /\ Known'
    <3>1. Sorted'
      BY <2>7 DEF MessagesApart, Sorted
    <3>2. Known'
      BY <2>2, <2>7 DEF MessagesApart, Known
    <3> QED
      BY <3>1, <3>2
  <2>4. \A k \in 1 .. n - 1 : tx[k].data # m
    <3> SUFFICES ASSUME NEW k \in 1 .. n - 1 PROVE tx[k].data # m
      OBVIOUS
    <3>1. tx[k].data < m /\ tx[k].data \in Nat /\ m \in Nat
      BY <1>1, <2>2 DEF MessagesApart, Sorted
    <3> QED
      BY <3>1
  <2>5. CASE wire' = wire
    <3>1. WrittenKnown' /\ Once'
      BY <2>2, <2>5 DEF MessagesApart, WrittenKnown, Once
    <3>2. Apart'
      BY <2>5, <2>7 DEF MessagesApart, Apart
    <3> QED
      BY <2>3, <3>1, <3>2 DEF MessagesApart
  <2>6. CASE Adds(tx[n].op, m, whole)
    <3> DEFINE w == Len(wire[hnd])
    <3>1. /\ w \in Nat /\ hnd \in Handles /\ Len(wire'[hnd]) = w + 1
          /\ \A i \in 1 .. w : wire'[hnd][i] = wire[hnd][i]
          /\ wire'[hnd][w + 1].data = m
          /\ \A h \in Handles \ {hnd} : wire'[h] = wire[h]
      BY <2>6 DEF Adds
    <3> HIDE DEF m, w
    <3>2. \A h \in Handles : \A i \in 1 .. Len(wire'[h]) :
            \/ h = hnd /\ i = w + 1 /\ wire'[h][i].data = m
            \/ i \in 1 .. Len(wire[h]) /\ wire'[h][i] = wire[h][i] /\ wire[h][i].data # m
      <4>1. \A g \in Handles : \A j \in 1 .. Len(wire[g]) : wire[g][j].data # m
        BY <2>2 DEF MessagesApart, Apart, m
      <4> QED
        BY <2>6, <4>1, OldOrNew DEF w
    <3>3. WrittenKnown'
      <4>1. m <= last
        BY <2>2 DEF MessagesApart, Known, m
      <4> QED
        BY <2>2, <3>2, <4>1 DEF MessagesApart, WrittenKnown
    <3>4. Apart'
      <4> SUFFICES ASSUME NEW h \in Handles, NEW i \in 1 .. Len(wire'[h]),
                          NEW k \in 1 .. Len(tx')
                   PROVE  wire'[h][i].data # tx'[k].data
        BY DEF Apart
      <4>1. tx'[k] = tx[k] /\ k \in 1 .. n /\ k \in 1 .. n - 1
        BY <2>7
      <4>2. tx'[k].data # m
        BY <2>4, <4>1
      <4> QED
        BY <3>2, <4>1, <4>2 DEF MessagesApart, Apart
    <3>5. Once'
      <4> SUFFICES ASSUME NEW g \in Handles, NEW h \in Handles,
                          NEW i \in 1 .. Len(wire'[g]), NEW j \in 1 .. Len(wire'[h]),
                          wire'[g][i].data \in Msgs, wire'[g][i].data = wire'[h][j].data
                   PROVE  g = h /\ i = j
        BY DEF Once, Msgs
      <4>1. \/ g = hnd /\ i = w + 1 /\ wire'[g][i].data = m
            \/ i \in 1 .. Len(wire[g]) /\ wire'[g][i] = wire[g][i] /\ wire[g][i].data # m
        BY <3>2
      <4>2. \/ h = hnd /\ j = w + 1 /\ wire'[h][j].data = m
            \/ j \in 1 .. Len(wire[h]) /\ wire'[h][j] = wire[h][j] /\ wire[h][j].data # m
        BY <3>2
      <4>3. CASE wire'[g][i].data = m
        BY <4>1, <4>2, <4>3
      <4>4. CASE wire'[g][i].data # m
        <5>1. /\ i \in 1 .. Len(wire[g]) /\ wire'[g][i] = wire[g][i]
              /\ j \in 1 .. Len(wire[h]) /\ wire'[h][j] = wire[h][j]
          BY <4>1, <4>2, <4>4
        <5> QED
          BY <5>1 DEF MessagesApart, Once
      <4> QED
        BY <4>3, <4>4
    <3> QED
      BY <2>3, <3>3, <3>4, <3>5 DEF MessagesApart
  <2> QED
    BY <2>1, <2>5, <2>6 DEF TakesLast
<1>5. CASE Discards
  <2>1. WrittenKnown' /\ Once'
    BY <1>1, <1>5, OtherKeepsApart DEF Discards, MessagesApart
  <2>2. Len(tx') = 0
    BY <1>5 DEF Discards
  <2> QED
    BY <2>1, <2>2 DEF MessagesApart, Sorted, Known, Apart
<1> QED
  BY <1>2, <1>3, <1>4, <1>5, MessageStep

LEMMA ApartAlways == Spec => []MessagesApart
<1>1. Init => MessagesApart
  <2> SUFFICES ASSUME Init PROVE MessagesApart
    OBVIOUS
  <2>1. Len(tx) = 0 /\ \A h \in Handles : Len(wire[h]) = 0
    BY DEF Init, WsInit
  <2> QED
    BY <2>1 DEF MessagesApart, Sorted, Known, WrittenKnown, Apart, Once
<1>2. LoopInv /\ LoopTypes' /\ NothingFailed /\ MessagesApart /\ [Next]_vars => MessagesApart'
  BY ApartStep
<1> QED
  BY <1>1, <1>2, LoopInvAlways, LoopTypesAlways, NothingFailedAlways, PTL DEF Spec

LEMMA AtMostOneMember ==
  ASSUME NEW S, \A x, y \in S : x = y
  PROVE  /\ Cardinality(S) \in Nat /\ Cardinality(S) <= 1
         /\ S = {} => Cardinality(S) = 0
<1>1. CASE S = {}
  BY <1>1, FS_EmptySet
<1>2. CASE S # {}
  <2>1. PICK x \in S : S = {x}
    BY <1>2
  <2> QED
    BY <1>2, <2>1, FS_Singleton
<1> QED
  BY <1>1, <1>2

(* A message is on the stack or on one connection, never on two or twice     *)
(* (revolt_ws_poll 227-235).                                                *)
THEOREM AtMostOnceThm == Spec => []AtMostOnce
<1>1. ASSUME LoopInv, MessagesApart PROVE AtMostOnce
  <2> SUFFICES ASSUME NEW m \in Msgs
               PROVE  Cardinality(Carriers(m))
                        + Cardinality({i \in 1 .. Len(tx) : tx[i].data = m}) <= 1
    BY DEF AtMostOnce
  <2> DEFINE C == Carriers(m)
             W == {i \in 1 .. Len(tx) : tx[i].data = m}
  <2>1. \A x, y \in C : x = y
    <3> SUFFICES ASSUME NEW x \in C, NEW y \in C PROVE x = y
      OBVIOUS
    <3>1. /\ x[1] \in Handles /\ x[2] \in 1 .. Len(wire[x[1]])
          /\ wire[x[1]][x[2]].data = m /\ x = <<x[1], x[2]>>
          /\ y[1] \in Handles /\ y[2] \in 1 .. Len(wire[y[1]])
          /\ wire[y[1]][y[2]].data = m /\ y = <<y[1], y[2]>>
      <4>1. \A h \in Handles : Len(wire[h]) \in Nat
        BY <1>1, LenNat DEF LoopInv, WsTypeOK, WireType
      <4> QED
        BY <4>1 DEF Carriers
    <3>2. x[1] = y[1] /\ x[2] = y[2]
      BY <1>1, <3>1 DEF MessagesApart, Once
    <3> QED
      BY <3>1, <3>2
  <2>2. \A i, j \in W : i = j
    <3> SUFFICES ASSUME NEW i \in W, NEW j \in W, i < j PROVE FALSE
      BY <1>1, StackElements DEF LoopInv, LoopTypes
    <3>1. tx[i].data < tx[j].data /\ tx[i].data = m /\ tx[j].data = m
      BY <1>1 DEF MessagesApart, Sorted
    <3>2. m \in Int
      BY LoopBounds DEF Msgs
    <3> QED
      BY <3>1, <3>2
  <2>3. C = {} \/ W = {}
    <3> SUFFICES ASSUME NEW x \in C, NEW i \in W PROVE FALSE
      OBVIOUS
    <3>1. /\ x[1] \in Handles /\ x[2] \in 1 .. Len(wire[x[1]])
          /\ wire[x[1]][x[2]].data = m
      <4>1. \A h \in Handles : Len(wire[h]) \in Nat
        BY <1>1, LenNat DEF LoopInv, WsTypeOK, WireType
      <4> QED
        BY <4>1 DEF Carriers
    <3>2. i \in 1 .. Len(tx) /\ tx[i].data = m
      OBVIOUS
    <3> QED
      BY <1>1, <3>1, <3>2 DEF MessagesApart, Apart
  <2> HIDE DEF C, W
  <2>4. /\ Cardinality(C) \in Nat /\ Cardinality(C) <= 1
        /\ C = {} => Cardinality(C) = 0
    BY <2>1, AtMostOneMember
  <2>5. /\ Cardinality(W) \in Nat /\ Cardinality(W) <= 1
        /\ W = {} => Cardinality(W) = 0
    BY <2>2, AtMostOneMember
  <2>6. Cardinality(C) + Cardinality(W) <= 1
    BY <2>3, <2>4, <2>5
  <2> QED
    BY <2>6 DEF C, W
<1> QED
  BY <1>1, LoopInvAlways, ApartAlways, PTL

-----------------------------------------------------------------------------
(* The stack as an Outbox.                                                  *)
Queued == {tx[i].data : i \in 1 .. Len(tx)}
SentWhole == {m \in 1 .. last : \E c \in Carriers(m) : wire[c[1]][c[2]].whole}

Whole(m, w) ==
  \E h \in Handles : \E i \in 1 .. MaxWire :
    i <= Len(w[h]) /\ w[h][i].data = m /\ w[h][i].whole

LEMMA WholeCarrier ==
  ASSUME NEW m, NEW w
  PROVE  (\E c \in {p \in Handles \X (1 .. MaxWire) :
                      p[2] <= Len(w[p[1]]) /\ w[p[1]][p[2]].data = m} : w[c[1]][c[2]].whole)
         <=> Whole(m, w)
<1> DEFINE C == {p \in Handles \X (1 .. MaxWire) :
                  p[2] <= Len(w[p[1]]) /\ w[p[1]][p[2]].data = m}
<1>1. ASSUME NEW c \in C, w[c[1]][c[2]].whole PROVE Whole(m, w)
  <2>1. /\ c[1] \in Handles /\ c[2] \in 1 .. MaxWire
        /\ c[2] <= Len(w[c[1]]) /\ w[c[1]][c[2]].data = m
    OBVIOUS
  <2> QED
    BY <1>1, <2>1 DEF Whole
<1>2. ASSUME Whole(m, w) PROVE \E c \in C : w[c[1]][c[2]].whole
  <2>1. PICK h \in Handles, i \in 1 .. MaxWire :
          i <= Len(w[h]) /\ w[h][i].data = m /\ w[h][i].whole
    BY <1>2 DEF Whole
  <2>2. <<h, i>> \in C /\ w[<<h, i>>[1]][<<h, i>>[2]].whole
    BY <2>1
  <2> QED
    BY <2>2
<1> QED
  BY <1>1, <1>2

LEMMA SentMembers ==
  /\ SentWhole = {m \in 1 .. last : Whole(m, wire)}
  /\ SentWhole' = {m \in 1 .. last' : Whole(m, wire')}
<1>1. SentWhole = {m \in 1 .. last : Whole(m, wire)}
  BY WholeCarrier DEF SentWhole, Carriers
<1>2. SentWhole' = {m \in 1 .. last' : Whole(m, wire')}
  BY WholeCarrier DEF SentWhole, Carriers
<1> QED
  BY <1>1, <1>2

(* A frame more is a message more if it is whole.                           *)
LEMMA SentAdds ==
  ASSUME LoopInv, NEW op, NEW data, NEW whole \in BOOLEAN, Adds(op, data, whole), NEW m
  PROVE  Whole(m, wire') <=>
           Whole(m, wire) \/ (data = m /\ whole /\ Len(wire[hnd]) < MaxWire)
<1> DEFINE n == Len(wire[hnd])
<1>1. \A h \in Handles : Len(wire[h]) \in Nat
  BY LenNat DEF LoopInv, WsTypeOK, WireType
<1>2. /\ hnd \in Handles /\ n \in Nat /\ MaxWire \in Nat /\ Len(wire'[hnd]) = n + 1
      /\ wire'[hnd][n + 1] = [op |-> op, data |-> data, whole |-> whole]
      /\ \A i \in 1 .. n : wire'[hnd][i] = wire[hnd][i]
      /\ \A h \in Handles \ {hnd} : wire'[h] = wire[h]
  BY BoundsAssumption DEF Adds
<1> HIDE DEF n
<1>3. ASSUME NEW h \in Handles, NEW i \in 1 .. MaxWire, i <= Len(wire[h])
      PROVE  i <= Len(wire'[h]) /\ wire'[h][i] = wire[h][i]
  BY <1>1, <1>2, <1>3 DEF n
<1>4. ASSUME Whole(m, wire) PROVE Whole(m, wire')
  BY <1>3, <1>4 DEF Whole
<1>5. ASSUME data = m, whole, n < MaxWire PROVE Whole(m, wire')
  <2>1. n + 1 \in 1 .. MaxWire /\ n + 1 <= Len(wire'[hnd])
    BY <1>2, <1>5
  <2>2. wire'[hnd][n + 1].data = m /\ wire'[hnd][n + 1].whole
    BY <1>2, <1>5
  <2> QED
    BY <1>2, <2>1, <2>2 DEF Whole
<1>6. ASSUME Whole(m, wire'), ~Whole(m, wire) PROVE data = m /\ whole /\ n < MaxWire
  <2>1. PICK h \in Handles, i \in 1 .. MaxWire :
          i <= Len(wire'[h]) /\ wire'[h][i].data = m /\ wire'[h][i].whole
    BY <1>6 DEF Whole
  <2>2. h = hnd /\ i = n + 1
    <3>1. ~(i <= Len(wire[h]))
      BY <1>3, <1>6, <2>1 DEF Whole
    <3>2. h = hnd
      BY <1>2, <2>1, <3>1
    <3> QED
      BY <1>1, <1>2, <2>1, <3>1, <3>2 DEF n
  <2> QED
    BY <1>2, <2>1, <2>2
<1> QED
  BY <1>4, <1>5, <1>6 DEF n

LEMMA SentKept ==
  ASSUME LoopInv, NoMessage, last' = last
  PROVE  SentWhole' = SentWhole
<1>1. ASSUME NEW m \in 1 .. last PROVE Whole(m, wire') <=> Whole(m, wire)
  <2>1. m \in Msgs
    BY LoopBounds DEF LoopInv, LoopTypes, StackType, Msgs
  <2>2. CASE wire' = wire
    BY <2>2 DEF Whole
  <2>3. ASSUME NEW op, NEW data, NEW whole, data \notin Msgs, Adds(op, data, whole)
        PROVE  Whole(m, wire') <=> Whole(m, wire)
    BY <2>1, <2>3, SentAdds DEF Adds
  <2> QED
    BY <2>2, <2>3 DEF NoMessage
<1>2. SentWhole' = {m \in 1 .. last' : Whole(m, wire')}
  BY SentMembers
<1> QED
  BY <1>1, <1>2, SentMembers

(* The newest of the messages is the last of a sorted stack.                *)
LEMMA NewestIsLast ==
  ASSUME LoopInv, Sorted, tx # <<>>
  PROVE  OutboxSpec!Newest = tx[Len(tx)].data
<1> DEFINE n == Len(tx)
           Top(m) == m \in Queued /\ \A k \in Queued : k <= m
<1>1. /\ n \in Nat /\ n \in 1 .. n
      /\ \A i \in 1 .. n : tx[i].data \in Nat
  <2>1. n >= 1
    BY PopOne DEF LoopInv, LoopTypes, StackType
  <2> QED
    BY <2>1, StackElements DEF LoopInv, LoopTypes
<1>2. \A i \in 1 .. n : tx[i].data <= tx[n].data
  <2> SUFFICES ASSUME NEW i \in 1 .. n, i # n PROVE tx[i].data <= tx[n].data
    BY <1>1
  <2>1. tx[i].data < tx[n].data
    BY <1>1 DEF Sorted
  <2> QED
    BY <1>1, <2>1
<1>3. Top(tx[n].data)
  BY <1>1, <1>2 DEF Queued
<1>4. \A k \in Queued : k \in Nat
  BY <1>1 DEF Queued
<1>5. \A m : Top(m) => m = tx[n].data
  BY <1>3, <1>4
<1>6. OutboxSpec!Newest = CHOOSE m \in Queued : \A k \in Queued : k <= m
  BY DEF OutboxSpec!Newest, Queued
<1>7. (CHOOSE m \in Queued : \A k \in Queued : k <= m) = tx[n].data
  BY <1>3, <1>5
<1> QED
  BY <1>6, <1>7

LEMMA OutboxStep ==
  ASSUME LoopInv, NothingFailed, MessagesApart, [Next]_vars
  PROVE  [OutboxSpec!Next]_<<last, Queued, SentWhole, res # "OK", main = "done">>
<1> USE DEF OutboxSpec!Next
<1>1. CASE revolt_cleanup
  <2>1. Discards
    BY <1>1, CleanupDiscards
  <2>2. Queued' = {} /\ SentWhole' = SentWhole
    BY <2>1, SentKept DEF Discards, Queued
  <2>3. OutboxSpec!Discard
    BY <2>1, <2>2 DEF OutboxSpec!Discard, Discards, Queued, SentWhole
  <2> QED
    BY <2>3
<1> SUFFICES ASSUME ~revolt_cleanup
             PROVE  [OutboxSpec!Next]_<<last, Queued, SentWhole, res # "OK", main = "done">>
  BY <1>1
<1>2. /\ (main' = "done") = (main = "done")
      /\ main = "done" => UNCHANGED <<tx, last, res>>
  BY DeletedStep
<1>3. CASE Idles
  <2>1. Queued' = Queued /\ SentWhole' = SentWhole /\ last' = last
    BY <1>3, SentKept DEF Idles, Queued
  <2>2. CASE (res # "OK") = (res' # "OK")
    BY <1>2, <2>1, <2>2
  <2>3. CASE res = "OK" /\ res' # "OK"
    <3>1. OutboxSpec!Fail
      BY <1>2, <2>1, <2>3 DEF OutboxSpec!Fail, Queued, SentWhole
    <3> QED
      BY <3>1
  <2>4. CASE res # "OK" /\ res' = "OK"
    <3>1. OutboxSpec!Restart
      BY <1>2, <2>1, <2>4 DEF OutboxSpec!Restart, Queued, SentWhole
    <3> QED
      BY <3>1
  <2> QED
    BY <2>2, <2>3, <2>4
<1>4. CASE Accepts
  <2>1. Queued' = Queued \cup {last + 1}
    <3>1. PICK op \in AppOps : tx' = Append(tx, [op |-> op, data |-> last + 1])
      BY <1>4 DEF Accepts
    <3> DEFINE e == [op |-> op, data |-> last + 1]
               n == Len(tx)
    <3>2. tx \in Seq(Entries) /\ e \in Entries /\ n \in Nat
      BY <1>4, StackElements DEF LoopInv, LoopTypes, StackType, Accepts, Entries, Msgs
    <3>3. e.data = last + 1
      OBVIOUS
    <3> HIDE DEF e
    <3>4. Len(tx') = n + 1 /\ tx'[n + 1] = e /\ \A i \in 1 .. n : tx'[i] = tx[i]
      BY <3>1, <3>2 DEF e
    <3> HIDE DEF n
    <3>5. 1 .. n + 1 = (1 .. n) \cup {n + 1}
      BY <3>2 DEF n
    <3>6. Queued' = {tx'[i].data : i \in 1 .. n + 1}
      BY <3>4 DEF Queued
    <3>7. Queued = {tx[i].data : i \in 1 .. n}
      BY DEF Queued, n
    <3> QED
      BY <3>3, <3>4, <3>5, <3>6, <3>7
  <2>2. SentWhole' = SentWhole
    <3>1. ~Whole(last + 1, wire)
      <4> SUFFICES ASSUME NEW h \in Handles, NEW i \in 1 .. MaxWire, i <= Len(wire[h]),
                          wire[h][i].data = last + 1
                   PROVE  FALSE
        BY DEF Whole
      <4>1. last \in Nat /\ last + 1 \in Msgs
        BY <1>4, StackElements DEF LoopInv, LoopTypes, Accepts, Msgs
      <4>2. i \in 1 .. Len(wire[h])
        BY LenNat DEF LoopInv, WsTypeOK, WireType
      <4>3. last + 1 <= last
        BY <4>1, <4>2 DEF MessagesApart, WrittenKnown
      <4> QED
        BY <4>1, <4>3
    <3>2. SentWhole' = {m \in 1 .. last + 1 : Whole(m, wire)}
      BY <1>4, SentMembers DEF Accepts
    <3>3. 1 .. last + 1 = (1 .. last) \cup {last + 1}
      <4>1. last \in Nat
        BY StackElements DEF LoopInv, LoopTypes
      <4> QED
        BY <4>1
    <3> QED
      BY <3>1, <3>2, <3>3, SentMembers
  <2>3. main # "done"
    BY <1>4, <1>2, StackElements DEF Accepts, LoopInv, LoopTypes
  <2>4. OutboxSpec!Accept
    BY <1>4, <1>2, <2>1, <2>2, <2>3 DEF OutboxSpec!Accept, Accepts, Queued, SentWhole
  <2> QED
    BY <2>4
<1>5. CASE Takes
  <2>1. PICK result \in Results, whole \in BOOLEAN : TakesLast(result, whole)
    BY <1>5 DEF Takes
  <2> DEFINE n == Len(tx)
             m == tx[n].data
  <2>2. /\ tx # <<>> /\ last' = last /\ n \in Nat /\ n \in 1 .. n /\ Len(tx') = n - 1
        /\ \A i \in 1 .. n - 1 : tx'[i] = tx[i]
    BY <2>1, PopOne DEF TakesLast, LoopInv, LoopTypes, StackType
  <2>3. m \in Queued /\ m \in 1 .. last /\ OutboxSpec!Newest = m
    BY <2>2, NewestIsLast, StackElements
    DEF MessagesApart, Known, Queued, LoopInv, LoopTypes
  <2>4. Queued' = Queued \ {m}
    <3>1. \A i \in 1 .. n - 1 : tx[i].data # m
      <4> SUFFICES ASSUME NEW i \in 1 .. n - 1 PROVE tx[i].data # m
        OBVIOUS
      <4>1. tx[i].data < m /\ tx[i].data \in Nat /\ m \in Nat
        BY <2>2, StackElements DEF MessagesApart, Sorted, LoopInv, LoopTypes
      <4> QED
        BY <4>1
    <3>2. 1 .. n = (1 .. n - 1) \cup {n}
      BY <2>2
    <3>3. Queued' = {tx[i].data : i \in 1 .. n - 1}
      BY <2>2 DEF Queued
    <3>4. Queued = {tx[i].data : i \in 1 .. n}
      BY DEF Queued
    <3> QED
      BY <3>1, <3>2, <3>3, <3>4
  <2>5. SentWhole' = IF whole THEN SentWhole \cup {m} ELSE SentWhole
    <3>1. SentWhole' = {k \in 1 .. last : Whole(k, wire')}
      BY <2>2, SentMembers
    <3>2. CASE wire' = wire
      BY <2>1, <3>1, <3>2, SentMembers DEF TakesLast, Adds
    <3>3. CASE Adds(tx[n].op, m, whole) /\ Len(wire[hnd]) < MaxWire
      <4>1. \A k : Whole(k, wire') <=> Whole(k, wire) \/ (m = k /\ whole)
        BY <3>3, SentAdds
      <4> QED
        BY <2>3, <3>1, <4>1, SentMembers
    <3> QED
      BY <2>1, <3>2, <3>3 DEF TakesLast
  <2>6. main # "done"
    BY <1>2, <2>2
  <2>7. CASE whole
    <3>1. OutboxSpec!Transmit
      BY <1>2, <2>1, <2>2, <2>3, <2>4, <2>5, <2>7, <2>6
      DEF OutboxSpec!Transmit, TakesLast, Queued, SentWhole
    <3> QED
      BY <3>1
  <2>8. CASE ~whole
    <3>1. OutboxSpec!Fail
      BY <1>2, <2>1, <2>2, <2>3, <2>4, <2>5, <2>8, <2>6
      DEF OutboxSpec!Fail, TakesLast, Queued, SentWhole
    <3> QED
      BY <3>1
  <2> QED
    BY <2>7, <2>8
<1>6. ~Discards
  BY <1>2 DEF Discards
<1> QED
  BY <1>3, <1>4, <1>5, <1>6, MessageStep

(* The message stack is an Outbox: what leaves it was transmitted, newest    *)
(* first and once, or lost by a send whose failure ended the run, or freed   *)
(* by revolt_cleanup, after which nothing is accepted or sent.               *)
THEOREM ImplementsOutboxThm == Spec => ImplementsOutbox
<1>1. Init => OutboxSpec!Init
  <2> SUFFICES ASSUME Init PROVE OutboxSpec!Init
    OBVIOUS
  <2>1. Len(tx) = 0 /\ last = 0 /\ res = "OK" /\ main # "done"
    BY DEF Init
  <2> QED
    BY <2>1 DEF OutboxSpec!Init
<1>2. LoopInv /\ NothingFailed /\ MessagesApart /\ [Next]_vars
        => [OutboxSpec!Next]_<<last, Queued, SentWhole, res # "OK", main = "done">>
  BY OutboxStep
<1>3. LoopInv /\ NothingFailed /\ MessagesApart /\ [Next]_vars
        => [OutboxSpec!Next]_<<last, {tx[i].data : i \in 1 .. Len(tx)},
             {m \in 1 .. last : \E c \in Carriers(m) : wire[c[1]][c[2]].whole},
             res # "OK", main = "done">>
  BY <1>2 DEF Queued, SentWhole
<1> QED
  BY <1>1, <1>3, LoopInvAlways, NothingFailedAlways, ApartAlways, PTL
  DEF Spec, ImplementsOutbox, OutboxSpec!Spec

-----------------------------------------------------------------------------
(* The handles that are lost.  A run may lose the one its predecessor left,  *)
(* and no other, since poll never reconnects over a failed attempt.         *)
HoldsNoFailure ==
  pc \in InLoop \cup {"auth", "start"} => hnd = NULL \/ hs[hnd] # "raw"

(* Every step but a connect leaves what is lost as it is.                   *)
LEMMA KeepsHandles ==
  ASSUME LoopInv, UNCHANGED <<hnd, hs>> \/ (\E s, r : Disconnect(s, r)) \/ Peer
  PROVE  /\ Lost' = Lost
         /\ \/ hnd' = NULL
            \/ hnd' = hnd /\ (hnd \in Handles /\ hs'[hnd] = "raw" => hs[hnd] = "raw")
<1> DEFINE Goal == /\ Lost' = Lost
                   /\ \/ hnd' = NULL
                      \/ /\ hnd' = hnd
                         /\ hnd \in Handles /\ hs'[hnd] = "raw" => hs[hnd] = "raw"
<1> USE DEF LoopInv, WsTypeOK, HandleTypes
<1>1. ASSUME UNCHANGED <<hnd, hs>> PROVE Goal
  BY <1>1 DEF Lost
<1>2. ASSUME Cleanup PROVE Goal
  <2>1. \A h \in Handles : hs'[h] = IF h = hnd THEN "freed" ELSE hs[h]
    BY <1>2 DEF Cleanup
  <2>2. hnd' = NULL
    BY <1>2 DEF Cleanup
  <2> QED
    BY <2>1, <2>2, HandlesAssumption DEF Lost
<1>3. ASSUME NEW s, NEW r, Disconnect(s, r) PROVE Goal
  BY <1>1, <1>2, <1>3 DEF Disconnect
<1>4. CASE Peer
  <2>1. PICK g \in Handles : ServerBegins(g) \/ ServerSends(g) \/ ServerDrops(g)
    BY <1>4 DEF Peer
  <2>2. CASE ServerDrops(g)
    <3>1. /\ \A h \in Handles : hs'[h] = IF h = g THEN "eof" ELSE hs[h]
          /\ hs[g] = "up" /\ hnd' = hnd
      BY <2>2 DEF ServerDrops
    <3> QED
      BY <3>1 DEF Lost
  <2> QED
    BY <1>1, <2>1, <2>2 DEF ServerBegins, ServerSends
<1> QED
  BY <1>1, <1>3, <1>4

LEMMA OtherSteps ==
  ASSUME [Next]_vars, ~Connecting
  PROVE  UNCHANGED <<hnd, hs>> \/ (\E s, r : Disconnect(s, r)) \/ Peer
<1>1. CASE Running
  BY <1>1
  DEF Running, RunAuthenticate, PollReauthenticate, AuthenticateAt, RunStart, RunCheck,
      RunStop, PollSend, PollReceive, PollDropParse, PollDrop, on_close, on_close_end,
      DisconnectAt, on_ping, Callback, revoltc_ws_send, revoltc_ws_recv,
      revoltc_ws_disconnect, wsvars
<1>2. CASE Main
  BY <1>2
  DEF Main, MainSetOn, MainSend, MainSpawn, revolt_stop, MainJoin, MainAgain,
      revolt_cleanup, revoltc_ws_delete, MainDone, vars, wsvars
<1> QED
  BY <1>1, <1>2 DEF Next, PeerStep, vars, wsvars

LEMMA OtherMoves ==
  ASSUME LoopTypes, [Next]_vars, ~Connecting, ~MainSpawn
  PROVE  /\ runs' = runs
         /\ pc' = "connect" <=> pc = "connect"
         /\ pc = "idle" => pc' = "idle"
         /\ pc' \in InLoop \cup {"auth", "start"} => pc \in InLoop \cup {"auth", "start"}
<1>1. CASE Running
  <2>1. runs' = runs /\ pc # "connect" /\ pc # "idle"
    BY <1>1
    DEF Running, RunAuthenticate, PollReauthenticate, AuthenticateAt, RunStart, RunCheck,
        RunStop, PollSend, PollReceive, PollDropParse, PollDrop, on_close, on_close_end,
        DisconnectAt, on_ping, Callback
  <2>2. pc' # "connect"
    BY <1>1
    DEF Running, RunAuthenticate, PollReauthenticate, AuthenticateAt, RunStart, RunCheck,
        RunStop, PollSend, PollReceive, AfterReceive, PollDropParse, PollDrop, on_close,
        on_close_end, DisconnectAt, on_ping, Callback
  <2>3. pc \in InLoop \cup {"auth", "start"} \/ pc' = "exit"
    BY <1>1
    DEF Running, RunAuthenticate, PollReauthenticate, AuthenticateAt, RunStart, RunCheck,
        RunStop, PollSend, PollReceive, PollDropParse, PollDrop, on_close, on_close_end,
        DisconnectAt, on_ping, Callback, InLoop
  <2> QED
    BY <2>1, <2>2, <2>3 DEF InLoop
<1>2. CASE Main
  BY <1>2
  DEF Main, MainSetOn, MainSend, revolt_stop, MainJoin, MainAgain, revolt_cleanup,
      MainDone, vars, loopvars
<1> QED
  BY <1>1, <1>2 DEF Next, PeerStep, vars, loopvars

LEMMA ConnectLoses ==
  ASSUME LoopInv, NEW r \in Results, revoltc_ws_connect(r)
  PROVE  /\ Lost' \subseteq Lost \cup {hnd}
         /\ hnd = NULL \/ hs[hnd] # "raw" => Lost' \subseteq Lost
         /\ r = "OK" => connected'
<1> USE DEF LoopInv, WsTypeOK, HandleTypes
<1>1. CASE UNCHANGED <<hnd, connected, hs>> /\ connected /\ r = "OK"
  BY <1>1 DEF Lost
<1>2. CASE r = "CURL_INIT" /\ hnd' = NULL /\ hs' = hs
  BY <1>2 DEF Lost
<1>3. ASSUME NEW h \in Handles, hs[h] = "unused", hnd' = h,
             hs' = [hs EXCEPT ![h] = IF r = "OK" THEN "up" ELSE "raw"],
             connected' = (r = "OK")
      PROVE  /\ Lost' \subseteq Lost \cup {hnd}
             /\ hnd = NULL \/ hs[hnd] # "raw" => Lost' \subseteq Lost
             /\ r = "OK" => connected'
  <2>1. \A g \in Handles : hs'[g] = IF g = h THEN (IF r = "OK" THEN "up" ELSE "raw") ELSE hs[g]
    BY <1>3
  <2> QED
    BY <1>3, <2>1, HandlesAssumption DEF Lost
<1> QED
  BY <1>1, <1>2, <1>3 DEF revoltc_ws_connect

LostBound ==
  /\ IsFiniteSet(Lost)
  /\ runs = 0 => pc = "idle" /\ Lost = {} /\ hnd = NULL
  /\ runs > 0 /\ pc # "connect" => Cardinality(Lost) <= runs - 1
  /\ pc = "connect" =>
       IF runs = 1 THEN Lost = {} /\ hnd = NULL ELSE Cardinality(Lost) <= runs - 2

LEMMA LostStep ==
  ASSUME LoopInv, LoopInv', ConnectionHeld', HoldsNoFailure, LostBound, [Next]_vars
  PROVE  LostBound' /\ HoldsNoFailure'
<1>1. runs \in Nat /\ runs' \in Nat /\ IsFiniteSet(Lost) /\ Cardinality(Lost) \in Nat
  BY LoopBounds, FS_CardinalityType DEF LoopInv, LoopTypes, LostBound
<1>2. CASE Connecting
  <2>1. PICK r \in Results : /\ revoltc_ws_connect(r)
                             /\ pc' \in InLoop \cup {"auth", "start"} => r = "OK"
    BY <1>2 DEF Connecting, RunConnect, PollReconnect, ConnectAt, InLoop
  <2>2. /\ runs' = runs /\ pc \in {"connect", "reconnect"}
        /\ pc' \notin {"connect", "idle"}
    BY <1>2 DEF Connecting, RunConnect, PollReconnect, ConnectAt
  <2>3. HoldsNoFailure'
    <3>1. pc' \in InLoop \cup {"auth", "start"} => connected' /\ hnd' \in Handles
      BY <2>1, ConnectLoses DEF LoopInv, Held
    <3>2. connected' /\ hnd' \in Handles => hs'[hnd'] # "raw"
      BY DEF ConnectionHeld, Upgraded
    <3> QED
      BY <3>1, <3>2 DEF HoldsNoFailure
  <2>4. runs # 0
    BY <2>2 DEF LostBound
  <2>5. CASE hnd = NULL \/ hs[hnd] # "raw"
    <3>1. Lost' \subseteq Lost
      BY <2>1, <2>5, ConnectLoses
    <3>2. IsFiniteSet(Lost') /\ Cardinality(Lost') <= Cardinality(Lost)
          /\ Cardinality(Lost') \in Nat
      BY <1>1, <3>1, FS_Subset, FS_CardinalityType
    <3>3. Cardinality(Lost) <= runs - 1
      <4>1. Lost = {} => Cardinality(Lost) = 0
        BY FS_EmptySet
      <4> QED
        BY <1>1, <2>4, <4>1 DEF LostBound
    <3>4. Cardinality(Lost') <= runs' - 1
      BY <1>1, <2>2, <3>2, <3>3
    <3> QED
      BY <2>2, <2>3, <2>4, <3>2, <3>4 DEF LostBound
  <2>6. CASE ~(hnd = NULL \/ hs[hnd] # "raw")
    <3>1. pc = "connect" /\ runs # 1
      BY <2>2, <2>6 DEF HoldsNoFailure, LostBound, InLoop
    <3>2. Cardinality(Lost) <= runs - 2
      BY <3>1 DEF LostBound
    <3>3. Lost' \in SUBSET (Lost \cup {hnd})
      BY <2>1, ConnectLoses
    <3>4. IsFiniteSet(Lost \cup {hnd})
          /\ Cardinality(Lost \cup {hnd}) \in Nat
          /\ Cardinality(Lost \cup {hnd}) <= Cardinality(Lost) + 1
      BY <1>1, FS_AddElement
    <3>5. IsFiniteSet(Lost') /\ Cardinality(Lost') <= Cardinality(Lost \cup {hnd})
          /\ Cardinality(Lost') \in Nat
      BY <3>3, <3>4, FS_Subset, FS_CardinalityType
    <3>6. Cardinality(Lost') <= runs' - 1
      BY <1>1, <2>2, <3>2, <3>4, <3>5
    <3> QED
      BY <2>2, <2>3, <2>4, <3>5, <3>6 DEF LostBound
  <2> QED
    BY <2>5, <2>6
<1>3. CASE ~Connecting
  <2>1. /\ Lost' = Lost
        /\ hnd' = NULL \/ (hnd' = hnd /\ (hnd \in Handles /\ hs'[hnd] = "raw" => hs[hnd] = "raw"))
    BY <1>3, OtherSteps, KeepsHandles
  <2>2. CASE ~MainSpawn
    <3>1. /\ runs' = runs
          /\ pc' = "connect" <=> pc = "connect"
          /\ pc = "idle" => pc' = "idle"
          /\ pc' \in InLoop \cup {"auth", "start"} => pc \in InLoop \cup {"auth", "start"}
      BY <1>3, <2>2, OtherMoves DEF LoopInv
    <3>2. LostBound'
      BY <2>1, <3>1 DEF LostBound
    <3>3. HoldsNoFailure'
      BY <2>1, <3>1 DEF HoldsNoFailure, LoopInv, WsTypeOK, HandleTypes
    <3> QED
      BY <3>2, <3>3
  <2>3. CASE MainSpawn
    <3>1. runs' = runs + 1 /\ pc' = "connect" /\ pc # "connect" /\ UNCHANGED <<hnd, hs>>
      BY <2>3 DEF MainSpawn, LoopInv, Order, wsvars
    <3>2. HoldsNoFailure'
      BY <3>1 DEF HoldsNoFailure, InLoop
    <3>3. LostBound'
      BY <1>1, <2>1, <3>1 DEF LostBound
    <3> QED
      BY <3>2, <3>3
  <2> QED
    BY <2>2, <2>3
<1> QED
  BY <1>2, <1>3

(* Within one revolt_run no handle is lost, however often poll reconnects;   *)
(* each later run may lose the one its predecessor's failure left (ws.c 275- *)
(* 283, websocket.c 322-350).                                               *)
THEOREM LostAcrossRunsThm == Spec => []LostAcrossRunsOnly
<1>1. Init => LostBound /\ HoldsNoFailure
  <2> SUFFICES ASSUME Init PROVE LostBound /\ HoldsNoFailure
    OBVIOUS
  <2>1. Lost = {} /\ runs = 0 /\ pc = "idle" /\ hnd = NULL
    BY DEF Init, WsInit, Lost
  <2> QED
    BY <2>1, FS_EmptySet DEF LostBound, HoldsNoFailure
<1>2. LoopInv /\ LoopInv' /\ ConnectionHeld' /\ HoldsNoFailure /\ LostBound /\ [Next]_vars
        => LostBound' /\ HoldsNoFailure'
  BY LostStep
<1>3. LoopInv /\ LostBound => LostAcrossRunsOnly
  <2> SUFFICES ASSUME LoopInv, LostBound, runs > 0 PROVE Cardinality(Lost) <= runs - 1
    BY DEF LostAcrossRunsOnly
  <2>1. runs \in Nat /\ Cardinality(Lost) \in Nat
    BY LoopBounds, FS_CardinalityType DEF LoopInv, LoopTypes, LostBound
  <2>2. Lost = {} => Cardinality(Lost) = 0
    BY FS_EmptySet
  <2> QED
    BY <2>1, <2>2 DEF LostBound
<1>4. Spec => []ConnectionHeld
  BY SpecIsWs, ConnectionHeldAlways, PTL
<1> QED
  BY <1>1, <1>2, <1>3, <1>4, LoopInvAlways, PTL DEF Spec

-----------------------------------------------------------------------------
(* Authenticate messages are counted per connection.  As long as no          *)
(* disconnect can fail, poll reconnects to a new handle only, on which       *)
(* nothing has been written.                                                *)
AuthsOf(h) == Cardinality(AuthsOn(h))
Fresh ==
  /\ \A h \in Handles : hs[h] = "unused" => AuthsOn(h) = {}
  /\ pc = "reconnect" => ~connected
  /\ pc = "reauth" /\ connected => AuthsOn(hnd) = {}
AuthsBound ==
  /\ runs = 0 => pc = "idle"
  /\ \A h \in Handles : AuthsOf(h) <= runs
  /\ pc \in {"connect", "auth"} => \A h \in Handles : AuthsOf(h) <= runs - 1
OnceInv == ~AllocMayFail => Fresh /\ AuthsBound

LEMMA AuthsFinite ==
  ASSUME NEW w, Len(w) \in Nat, NEW S, S = {i \in 1 .. Len(w) : IsAuth(w[i])}
  PROVE  IsFiniteSet(S) /\ Cardinality(S) \in Nat
<1>1. IsFiniteSet(1 .. Len(w))
  BY FS_Interval
<1>2. S \in SUBSET (1 .. Len(w))
  OBVIOUS
<1> QED
  BY <1>1, <1>2, FS_Subset, FS_CardinalityType

LEMMA AddsAuths ==
  ASSUME NEW op, NEW data, NEW whole, Adds(op, data, whole), NEW h \in Handles
  PROVE  /\ h # hnd \/ data # AUTH => AuthsOn(h)' = AuthsOn(h)
         /\ AuthsOn(h)' \subseteq AuthsOn(h) \cup {Len(wire[h]) + 1}
<1>1. CASE h # hnd
  BY <1>1 DEF Adds, AuthsOn, IsAuth
<1>2. CASE h = hnd
  <2> DEFINE n == Len(wire[h])
  <2>1. /\ n \in Nat /\ Len(wire'[h]) = n + 1
        /\ \A i \in 1 .. n : wire'[h][i] = wire[h][i]
        /\ wire'[h][n + 1].data = data
    BY <1>2 DEF Adds
  <2>2. \A i \in 1 .. (n + 1) : i \in 1 .. n \/ i = n + 1
    BY <2>1
  <2>3. \A i \in 1 .. n : i \in 1 .. (n + 1) /\ i # n + 1
    BY <2>1
  <2>4. AuthsOn(h)' = {i \in 1 .. (n + 1) : wire'[h][i].data = AUTH}
    BY <2>1 DEF AuthsOn, IsAuth
  <2>5. AuthsOn(h) = {i \in 1 .. n : wire[h][i].data = AUTH}
    BY DEF AuthsOn, IsAuth
  <2> HIDE DEF n
  <2>6. AuthsOn(h)' \subseteq AuthsOn(h) \cup {n + 1}
    BY <2>1, <2>2, <2>4, <2>5
  <2>7. data # AUTH => AuthsOn(h)' = AuthsOn(h)
    BY <2>1, <2>2, <2>3, <2>4, <2>5
  <2> QED
    BY <1>2, <2>6, <2>7 DEF n
<1> QED
  BY <1>1, <1>2

(* A step authenticates once at most, and then the run thread is past the    *)
(* place it authenticates at.                                               *)
AuthsAt(h) == AuthsOn(h)' = AuthsOn(h)
LEMMA StepAuths ==
  ASSUME LoopInv, [Next]_vars
  PROVE  \/ \A h \in Handles : AuthsAt(h)
         \/ /\ connected /\ UNCHANGED <<hnd, connected>> /\ hnd \in Handles
            /\ pc \in {"auth", "reauth"}
            /\ wire' # wire
            /\ \A h \in Handles :
                 /\ h # hnd => AuthsAt(h)
                 /\ \E n : AuthsOn(h)' \subseteq AuthsOn(h) \cup {n}
<1> USE DEF AuthsAt
<1>1. CASE wire' = wire
  BY <1>1 DEF AuthsOn, IsAuth
<1>2. ASSUME NEW op, NEW data, NEW whole, Adds(op, data, whole), data # AUTH
      PROVE  \A h \in Handles : AuthsAt(h)
  BY <1>2, AddsAuths
<1>3. \A s \in Status : s # AUTH
  BY DataAssumption
<1>4. tx # <<>> => tx[Len(tx)].data # AUTH
  BY EntryOutgoing, DataAssumption DEF LoopInv, LoopTypes, Entries
<1>5. rx.op = "PING" => rx.data # AUTH
  BY PongOutgoing, DataAssumption DEF LoopInv, LoopTypes, PlaceType
<1>6. ASSUME NEW whole, Adds("TEXT", AUTH, whole)
      PROVE  /\ wire' # wire /\ hnd \in Handles
             /\ \A h \in Handles :
                  /\ h # hnd => AuthsAt(h)
                  /\ \E n : AuthsOn(h)' \subseteq AuthsOn(h) \cup {n}
  <2>1. wire' # wire /\ hnd \in Handles
    BY <1>6 DEF Adds
  <2> QED
    BY <1>6, <2>1, AddsAuths
<1>7. CASE Quiet
  BY <1>1, <1>7 DEF Quiet
<1> QED
  BY <1>1, <1>2, <1>3, <1>4, <1>5, <1>6, <1>7, StepAdds

LEMMA AuthMoves ==
  ASSUME LoopTypes, Order, [Next]_vars
  PROVE  /\ pc = "auth" /\ pc' = "auth" => wire' = wire
         /\ ~MainSpawn =>
              /\ runs' = runs
              /\ pc = "idle" => pc' = "idle"
              /\ pc' \in {"connect", "auth"} => pc \in {"connect", "auth"}
<1>1. CASE Connecting
  BY <1>1
  DEF Connecting, RunConnect, PollReconnect, ConnectAt, revoltc_ws_connect
<1>2. CASE Running
  <2>1. pc' \notin {"connect", "auth"} /\ runs' = runs /\ pc # "idle"
    BY <1>2
    DEF Running, RunAuthenticate, PollReauthenticate, AuthenticateAt, RunStart, RunCheck,
        RunStop, PollSend, PollReceive, AfterReceive, PollDropParse, PollDrop, on_close,
        on_close_end, DisconnectAt, on_ping, Callback
  <2> QED
    BY <2>1
<1>3. CASE Main
  <2>1. CASE revolt_cleanup
    BY <2>1 DEF revolt_cleanup, Order
  <2>2. CASE ~revolt_cleanup
    BY <1>3, <2>2
    DEF Main, MainSetOn, MainSend, MainSpawn, revolt_stop, MainJoin, MainAgain,
        MainDone, vars, loopvars, wsvars
  <2> QED
    BY <2>1, <2>2
<1>4. CASE PeerStep \/ UNCHANGED vars
  BY <1>4
  DEF PeerStep, Peer, ServerBegins, ServerSends, ServerDrops, vars, loopvars, wsvars
<1> QED
  BY <1>1, <1>2, <1>3, <1>4 DEF Next

(* With memory for it, a disconnect always gives the handle up.             *)
LEMMA DropsHandle ==
  ASSUME NEW s, NEW r, Disconnect(s, r), ~AllocMayFail
  PROVE  ~connected'
  BY DEF Disconnect, Cleanup

LEMMA KeepsOrDrops ==
  ASSUME ~AllocMayFail, [Next]_vars, ~Connecting
  PROVE  connected' => hnd' = hnd /\ connected
<1> SUFFICES ASSUME connected' PROVE hnd' = hnd /\ connected
  OBVIOUS
<1>1. CASE Peer
  BY <1>1 DEF Peer, ServerBegins, ServerSends, ServerDrops
<1>2. CASE Running
  <2>1. CASE PollDropParse \/ PollDrop \/ on_close \/ on_close_end
    BY <2>1, DropsHandle
    DEF PollDropParse, PollDrop, on_close, on_close_end, DisconnectAt, revoltc_ws_disconnect
  <2>2. CASE ~(PollDropParse \/ PollDrop \/ on_close \/ on_close_end)
    BY <1>2, <2>2
    DEF Running, RunAuthenticate, PollReauthenticate, AuthenticateAt, RunStart, RunCheck,
        RunStop, PollSend, PollReceive, on_ping, Callback, revoltc_ws_send,
        revoltc_ws_recv, wsvars
  <2> QED
    BY <2>1, <2>2
<1>3. CASE Main
  <2>1. CASE revolt_cleanup
    BY <2>1, DropsHandle DEF revolt_cleanup, revoltc_ws_delete
  <2>2. CASE ~revolt_cleanup
    BY <1>3, <2>2
    DEF Main, MainSetOn, MainSend, MainSpawn, revolt_stop, MainJoin, MainAgain,
        MainDone, vars, wsvars
  <2> QED
    BY <2>1, <2>2
<1>4. CASE UNCHANGED vars
  BY <1>4 DEF vars, wsvars
<1> QED
  BY <1>1, <1>2, <1>3, <1>4 DEF Next, PeerStep

(* poll comes to "reconnect" from a disconnect only, and to "reauth" from    *)
(* there.                                                                   *)
LEMMA ReconnectMoves ==
  ASSUME [Next]_vars, ~Connecting
  PROVE  /\ pc' = "reconnect" => pc = "reconnect" \/ \E s, r : Disconnect(s, r)
         /\ pc' = "reauth" => pc = "reauth" /\ ~Running
<1>1. CASE Running
  <2>1. CASE PollDropParse \/ PollDrop \/ on_close \/ on_close_end
    BY <2>1
    DEF PollDropParse, PollDrop, on_close, on_close_end, DisconnectAt, revoltc_ws_disconnect
  <2>2. CASE ~(PollDropParse \/ PollDrop \/ on_close \/ on_close_end)
    BY <1>1, <2>2
    DEF Running, RunAuthenticate, PollReauthenticate, AuthenticateAt, RunStart, RunCheck,
        RunStop, PollSend, PollReceive, AfterReceive, on_ping, Callback
  <2> QED
    BY <2>1, <2>2
<1>2. CASE ~Running
  BY <1>2
  DEF Next, Main, MainSetOn, MainSend, MainSpawn, revolt_stop, MainJoin, MainAgain,
      revolt_cleanup, MainDone, PeerStep, vars, loopvars
<1> QED
  BY <1>1, <1>2

(* No step makes a handle unused again.                                     *)
LEMMA UnusedBefore ==
  ASSUME LoopInv, [Next]_vars, NEW h \in Handles, hs'[h] = "unused"
  PROVE  hs[h] = "unused"
<1> USE DEF LoopInv, WsTypeOK, HandleTypes
<1>1. CASE Connecting
  BY <1>1 DEF Connecting, RunConnect, PollReconnect, ConnectAt, revoltc_ws_connect
<1>2. CASE Cleanup
  <2>1. hs'[h] = IF h = hnd THEN "freed" ELSE hs[h]
    BY <1>2 DEF Cleanup
  <2> QED
    BY <2>1
<1>3. CASE hs' = hs
  BY <1>3
<1>4. ASSUME NEW s, NEW r, Disconnect(s, r) PROVE hs[h] = "unused"
  BY <1>2, <1>3, <1>4 DEF Disconnect
<1>5. CASE Peer
  BY <1>5 DEF Peer, ServerBegins, ServerSends, ServerDrops
<1> QED
  BY <1>1, <1>3, <1>4, <1>5, OtherSteps

LEMMA FreshStep ==
  ASSUME LoopInv, ConnectionHeld, Fresh, ~AllocMayFail, [Next]_vars
  PROVE  Fresh'
<1>1. ASSUME NEW h \in Handles, hs'[h] = "unused" PROVE AuthsOn(h)' = {}
  <2>1. hs[h] = "unused" /\ AuthsOn(h) = {}
    BY <1>1, UnusedBefore DEF Fresh
  <2>2. connected => h # hnd
    BY <2>1 DEF ConnectionHeld, Upgraded
  <2> QED
    BY <2>1, <2>2, StepAuths DEF AuthsAt
<1>2. CASE Connecting
  <2>1. PICK r \in Results :
          /\ revoltc_ws_connect(r)
          /\ pc' \in {"reauth", "reconnect"} => r = "OK" /\ pc = "reconnect" /\ pc' = "reauth"
    BY <1>2 DEF Connecting, RunConnect, PollReconnect, ConnectAt
  <2>2. pc' = "reauth" =>
          /\ hnd' \in Handles /\ hs[hnd'] = "unused" /\ wire' = wire
    BY <2>1 DEF revoltc_ws_connect, Fresh
  <2>3. ASSUME pc' = "reauth" PROVE AuthsOn(hnd)' = {}
    <3>1. PICK h \in Handles : h = hnd' /\ hs[h] = "unused" /\ wire' = wire
      BY <2>2, <2>3
    <3>2. AuthsOn(h) = {}
      BY <3>1 DEF Fresh
    <3>3. AuthsOn(hnd)' = {i \in 1 .. Len(wire'[h]) : IsAuth(wire'[h][i])}
      BY <3>1 DEF AuthsOn, IsAuth
    <3> QED
      BY <3>1, <3>2, <3>3 DEF AuthsOn
  <2> QED
    BY <1>1, <2>1, <2>3 DEF Fresh
<1>3. CASE ~Connecting
  <2>1. pc' = "reconnect" => ~connected'
    <3>1. CASE pc = "reconnect"
      BY <1>3, <3>1, KeepsOrDrops DEF Fresh
    <3>2. CASE \E s, r : Disconnect(s, r)
      BY <3>2, DropsHandle
    <3> QED
      BY <1>3, <3>1, <3>2, ReconnectMoves
  <2>2. ASSUME pc' = "reauth", connected' PROVE AuthsOn(hnd)' = {}
    <3>1. pc = "reauth" /\ ~Running /\ hnd' = hnd /\ connected
      BY <1>3, <2>2, ReconnectMoves, KeepsOrDrops
    <3>2. wire' = wire
      <4>1. CASE revolt_cleanup
        BY <3>1, <4>1 DEF revolt_cleanup, LoopInv, Order
      <4>2. CASE ~revolt_cleanup
        BY <1>3, <3>1, <4>2
        DEF Next, Main, MainSetOn, MainSend, MainSpawn, revolt_stop, MainJoin, MainAgain,
            MainDone, PeerStep, Peer, ServerBegins, ServerSends, ServerDrops, vars, wsvars
      <4> QED
        BY <4>1, <4>2
    <3>3. AuthsOn(hnd) = {}
      BY <2>2, <3>1 DEF Fresh
    <3> QED
      BY <3>1, <3>2, <3>3 DEF AuthsOn, IsAuth
  <2> QED
    BY <1>1, <2>1, <2>2 DEF Fresh
<1> QED
  BY <1>2, <1>3

LEMMA AuthsBoundStep ==
  ASSUME LoopInv, LoopInv', Fresh, AuthsBound, [Next]_vars
  PROVE  AuthsBound'
<1>1. runs \in Nat /\ runs' \in Nat
  BY LoopBounds DEF LoopInv, LoopTypes
<1>2. \A h \in Handles : IsFiniteSet(AuthsOn(h)) /\ AuthsOf(h) \in Nat /\ AuthsOf(h)' \in Nat
  <2> TAKE h \in Handles
  <2>1. Len(wire[h]) \in Nat /\ Len(wire'[h]) \in Nat
    BY DEF LoopInv, WsTypeOK, WireType
  <2>2. /\ AuthsOn(h) = {i \in 1 .. Len(wire[h]) : IsAuth(wire[h][i])}
        /\ AuthsOn(h)' = {i \in 1 .. Len(wire'[h]) : IsAuth(wire'[h][i])}
    BY DEF AuthsOn, IsAuth
  <2> QED
    BY <2>1, <2>2, AuthsFinite DEF AuthsOf
<1>3. CASE \A h \in Handles : AuthsAt(h)
  <2>1. \A h \in Handles : AuthsOf(h)' = AuthsOf(h)
    BY <1>3 DEF AuthsAt, AuthsOf
  <2>2. CASE MainSpawn
    <3>1. runs' = runs + 1
      BY <2>2 DEF MainSpawn
    <3> QED
      BY <1>1, <1>2, <2>1, <3>1 DEF AuthsBound
  <2>3. CASE ~MainSpawn
    <3>1. /\ runs' = runs
          /\ pc = "idle" => pc' = "idle"
          /\ pc' \in {"connect", "auth"} => pc \in {"connect", "auth"}
      BY <2>3, AuthMoves DEF LoopInv
    <3> QED
      BY <2>1, <3>1 DEF AuthsBound
  <2> QED
    BY <2>2, <2>3
<1>4. ASSUME connected, hnd \in Handles, pc \in {"auth", "reauth"}, wire' # wire,
             \A h \in Handles : /\ h # hnd => AuthsAt(h)
                                /\ \E n : AuthsOn(h)' \subseteq AuthsOn(h) \cup {n}
      PROVE  AuthsBound'
  <2>1. ~MainSpawn
    BY <1>4 DEF MainSpawn, wsvars
  <2>2. /\ runs' = runs
        /\ pc' \notin {"connect", "auth"}
    <3>1. /\ runs' = runs
          /\ pc' = "auth" => pc # "auth"
          /\ pc' \in {"connect", "auth"} => pc \in {"connect", "auth"}
      BY <1>4, <2>1, AuthMoves DEF LoopInv
    <3>2. pc' # "connect"
      BY <1>4, <2>1, OtherMoves
      DEF LoopInv, Connecting, RunConnect, PollReconnect, ConnectAt
    <3> QED
      BY <1>4, <3>1, <3>2
  <2>3. runs # 0
    BY <1>4 DEF AuthsBound
  <2>4. \A h \in Handles \ {hnd} : AuthsOf(h)' = AuthsOf(h)
    BY <1>4 DEF AuthsAt, AuthsOf
  <2>5. PICK g \in Handles : g = hnd
    BY <1>4
  <2>6. PICK n : AuthsOn(g)' \subseteq AuthsOn(g) \cup {n}
    BY <1>4
  <2>7. AuthsOf(g)' <= AuthsOf(g) + 1
    <3>1. /\ IsFiniteSet(AuthsOn(g) \cup {n})
          /\ Cardinality(AuthsOn(g) \cup {n}) <= AuthsOf(g) + 1
      <4>1. IsFiniteSet(AuthsOn(g)) /\ Cardinality(AuthsOn(g)) \in Nat
        BY <1>2 DEF AuthsOf
      <4> QED
        BY <4>1, FS_AddElement DEF AuthsOf
    <3>2. AuthsOn(g)' \in SUBSET (AuthsOn(g) \cup {n})
      BY <2>6
    <3>3. /\ Cardinality(AuthsOn(g)') <= Cardinality(AuthsOn(g) \cup {n})
          /\ Cardinality(AuthsOn(g) \cup {n}) \in Nat
      BY <3>1, <3>2, FS_Subset, FS_CardinalityType
    <3> QED
      BY <1>2, <3>1, <3>3 DEF AuthsOf
  <2>8. AuthsOf(g) <= runs - 1
    <3>1. CASE pc = "auth"
      BY <3>1 DEF AuthsBound
    <3>2. CASE pc = "reauth"
      <4>1. AuthsOn(g) = {}
        BY <1>4, <2>5, <3>2 DEF Fresh
      <4>2. AuthsOf(g) = 0
        BY <4>1, FS_EmptySet DEF AuthsOf
      <4> QED
        BY <1>1, <2>3, <4>2
    <3> QED
      BY <1>4, <3>1, <3>2
  <2>9. \A h \in Handles : AuthsOf(h)' <= runs'
    <3>1. AuthsOf(g)' <= runs'
      BY <1>1, <1>2, <2>2, <2>7, <2>8
    <3>2. \A h \in Handles \ {g} : AuthsOf(h)' <= runs'
      BY <2>2, <2>4, <2>5 DEF AuthsBound
    <3> QED
      BY <3>1, <3>2
  <2> QED
    BY <2>2, <2>3, <2>9 DEF AuthsBound
<1> QED
  BY <1>3, <1>4, StepAuths

(* The server sees the token on one connection no more often than revolt_run *)
(* was called, however often poll reconnects (ws.c 47-69, 275-283), as long  *)
(* as no disconnect lacks memory.                                           *)
THEOREM AuthOncePerRunThm == Spec => []AuthOncePerRun
<1>1. Init => OnceInv
  <2> SUFFICES ASSUME Init PROVE Fresh /\ AuthsBound
    BY DEF OnceInv
  <2>1. ASSUME NEW h \in Handles PROVE AuthsOn(h) = {}
    <3>1. Len(wire[h]) = 0
      BY DEF Init, WsInit
    <3>2. \A i : i \notin 1 .. Len(wire[h])
      BY <3>1
    <3> QED
      BY <3>2 DEF AuthsOn
  <2>2. ASSUME NEW h \in Handles PROVE AuthsOf(h) = 0
    <3>1. AuthsOn(h) = {}
      BY <2>1
    <3> QED
      BY <3>1, FS_EmptySet DEF AuthsOf
  <2>3. runs = 0 /\ pc = "idle"
    BY DEF Init
  <2> QED
    BY <2>1, <2>2, <2>3 DEF Fresh, AuthsBound
<1>2. LoopInv /\ LoopInv' /\ ConnectionHeld /\ OnceInv /\ [Next]_vars => OnceInv'
  BY FreshStep, AuthsBoundStep DEF OnceInv
<1>3. ASSUME OnceInv PROVE AuthOncePerRun
  <2> SUFFICES ASSUME ~AllocMayFail
               PROVE  \A h \in Handles : Cardinality(AuthsOn(h)) <= runs
    BY ZenonT(30) DEF AuthOncePerRun
  <2>1. AuthsBound
    BY <1>3, Zenon DEF OnceInv
  <2> TAKE h \in Handles
  <2>2. AuthsOf(h) <= runs
    BY <2>1, Zenon DEF AuthsBound
  <2> QED
    BY <2>2, Zenon DEF AuthsOf
<1>4. Spec => []ConnectionHeld
  BY SpecIsWs, ConnectionHeldAlways, PTL
<1> QED
  BY <1>1, <1>2, <1>3, <1>4, LoopInvAlways, PTL DEF Spec

-----------------------------------------------------------------------------
(* What is written and read in the middle of an answer: one more frame of    *)
(* the reader's, one more the peer sends, one more that is no answer, and    *)
(* the answer to a ping beyond those answered.                               *)
Continues(s, t) == Len(s) <= Len(t) /\ \A i \in 1 .. Len(s) : t[i] = s[i]
Ping(f, d) == f.op = "PING" /\ f.data = d
OneMore(w, v, f) ==
  /\ Len(w) \in Nat /\ Len(v) = Len(w) + 1 /\ v[Len(w) + 1] = f
  /\ \A i \in 1 .. Len(w) : v[i] = w[i]

LEMMA AnswersNone ==
  ASSUME NEW w, NEW s, NEW n, Answering(w) = {}
  PROVE  Answers(w, s, n)
<1>1. [i \in {} |-> 1] \in [Answering(w) -> 1 .. n]
  OBVIOUS
<1> QED
  BY <1>1 DEF Answers

LEMMA AnswersOn ==
  ASSUME NEW w, NEW s, NEW t, NEW n \in Nat, NEW m \in Nat, n <= m, n <= Len(s),
         Len(s) \in Nat, Continues(s, t), Answers(w, s, n)
  PROVE  Answers(w, t, m)
<1>1. PICK at \in [Answering(w) -> 1 .. n] :
        /\ \A i \in Answering(w) : s[at[i]].op = "PING" /\ s[at[i]].data = w[i].data
        /\ \A i, j \in Answering(w) : i < j => at[i] < at[j]
  BY DEF Answers
<1>2. \A i \in Answering(w) : at[i] \in 1 .. n
  OBVIOUS
<1>3. \A k \in 1 .. n : t[k] = s[k] /\ k \in 1 .. m
  BY DEF Continues
<1>4. at \in [Answering(w) -> 1 .. m]
  BY <1>2, <1>3
<1>5. \A i \in Answering(w) : t[at[i]].op = "PING" /\ t[at[i]].data = w[i].data
  BY <1>1, <1>2, <1>3
<1> QED
  BY <1>1, <1>4, <1>5 DEF Answers

LEMMA AnswersOther ==
  ASSUME NEW w, NEW v, NEW f, OneMore(w, v, f), f.op # "PONG" \/ f.data \in Msgs,
         NEW s, NEW n, Answers(w, s, n)
  PROVE  Answers(v, s, n)
<1>1. Answering(v) = Answering(w)
  BY DEF Answering, OneMore
<1>2. \A i \in Answering(w) : v[i] = w[i]
  BY DEF Answering, OneMore
<1> QED
  BY <1>1, <1>2 DEF Answers

LEMMA AnswersPong ==
  ASSUME NEW w, NEW v, NEW f, OneMore(w, v, f), NEW s, NEW k \in Nat \ {0},
         Ping(s[k], f.data), Answers(w, s, k - 1)
  PROVE  Answers(v, s, k)
<1> DEFINE n == Len(w) + 1
<1>1. n \in Nat /\ v[n] = f /\ \A i \in Answering(w) : v[i] = w[i] /\ i < n /\ i \in Nat
  BY DEF Answering, OneMore
<1>2. Answering(v) \in SUBSET (Answering(w) \cup {n})
  BY DEF Answering, OneMore
<1> HIDE DEF n
<1>3. PICK at \in [Answering(w) -> 1 .. (k - 1)] :
        /\ \A i \in Answering(w) : s[at[i]].op = "PING" /\ s[at[i]].data = w[i].data
        /\ \A i, j \in Answering(w) : i < j => at[i] < at[j]
  BY DEF Answers
<1>4. \A i \in Answering(w) : at[i] \in 1 .. k /\ at[i] < k
  OBVIOUS
<1> DEFINE to == [i \in Answering(v) |-> IF i = n THEN k ELSE at[i]]
<1>5. \A i \in Answering(v) : i = n \/ (i \in Answering(w) /\ i < n)
  BY <1>1, <1>2
<1>6. to \in [Answering(v) -> 1 .. k]
  BY <1>4, <1>5
<1>7. \A i \in Answering(v) : s[to[i]].op = "PING" /\ s[to[i]].data = v[i].data
  BY <1>1, <1>3, <1>5 DEF Ping
<1>8. ASSUME NEW i \in Answering(v), NEW j \in Answering(v), i < j PROVE to[i] < to[j]
  BY <1>1, <1>3, <1>4, <1>5, <1>8
<1> HIDE DEF to
<1> QED
  BY <1>6, <1>7, <1>8 DEF Answers

(* Nothing is written on a handle before it is connected.                   *)
Blank == \A h \in Handles : hs[h] = "unused" => Answering(wire[h]) = {}

LEMMA BlankStep ==
  ASSUME LoopInv, ConnectionHeld, Blank, [Next]_vars
  PROVE  Blank'
<1> SUFFICES ASSUME NEW h \in Handles, hs'[h] = "unused"
             PROVE  Answering(wire'[h]) = {}
  BY DEF Blank
<1>1. hs[h] = "unused"
  BY UnusedBefore
<1>2. connected => h # hnd
  BY <1>1 DEF ConnectionHeld, Upgraded
<1>3. WsTypeOK /\ [WsNext]_wsvars
  BY WsStep DEF LoopInv
<1>4. wire'[h] = wire[h]
  BY <1>2, <1>3, WireStep
<1> QED
  BY <1>1, <1>4 DEF Blank

LEMMA BlankAlways == Spec => []Blank
<1>1. Init => Blank
  <2>1. Answering(<<>>) = {}
    BY DEF Answering
  <2> QED
    BY <2>1 DEF Init, WsInit, Blank
<1>2. LoopInv /\ ConnectionHeld /\ Blank /\ [Next]_vars => Blank'
  BY BlankStep
<1> QED
  BY <1>1, <1>2, LoopInvAlways, SpecIsWs, ConnectionHeldAlways, PTL DEF Spec

(* Without a connect or a receive the reader of the current connection stays *)
(* where it is, and a frame that waits to be dispatched is the one that did. *)
ReaderStays ==
  /\ connected /\ hnd' = hnd
  /\ insync'[hnd] = insync[hnd] /\ pos'[hnd] = pos[hnd]
  /\ Continues(srv[hnd], srv'[hnd])

LEMMA PeerLeavesReader ==
  ASSUME LoopInv, connected, Peer
  PROVE  ReaderStays
<1>1. PICK g \in Handles : ServerBegins(g) \/ ServerSends(g) \/ ServerDrops(g)
  BY DEF Peer
<1>2. hnd \in Handles /\ srv[hnd] \in Seq(Served)
  BY DEF LoopInv, Held, WsTypeOK, PeerTypes
<1>3. Continues(srv[hnd], srv[hnd])
  BY <1>2, LenNat DEF Continues
<1>4. CASE srv' = srv
  BY <1>1, <1>3, <1>4 DEF ServerBegins, ServerSends, ServerDrops, peervars, ReaderStays
<1>5. CASE ServerSends(g)
  <2>1. PICK f \in Replies :
          srv' = [srv EXCEPT ![g] = Append(@,
                    [op |-> f.op, data |-> f.data, split |-> half[g] = "head"])]
    BY <1>5 DEF ServerSends
  <2> DEFINE e == [op |-> f.op, data |-> f.data, split |-> half[g] = "head"]
  <2>2. e \in Served
    BY FramesAssumption DEF Served
  <2>3. srv'[hnd] = IF hnd = g THEN Append(srv[hnd], e) ELSE srv[hnd]
    BY <1>2, <2>1 DEF LoopInv, WsTypeOK, PeerTypes
  <2> HIDE DEF e
  <2>4. Continues(srv[hnd], Append(srv[hnd], e))
    BY <1>2, <2>2 DEF Continues
  <2>5. Continues(srv[hnd], srv'[hnd])
    BY <1>3, <2>3, <2>4
  <2> QED
    BY <1>5, <2>5 DEF ServerSends, ReaderStays
<1> QED
  BY <1>1, <1>4, <1>5 DEF ServerBegins, ServerDrops, peervars

LEMMA ReaderLeft ==
  ASSUME LoopInv, [Next]_vars, ~Connecting, ~PollReceive, connected'
  PROVE  ReaderStays
<1>1. connected /\ UNCHANGED <<hnd, srv, pos, insync>> => ReaderStays
  <2> SUFFICES ASSUME connected, UNCHANGED <<hnd, srv, pos, insync>> PROVE ReaderStays
    OBVIOUS
  <2>1. srv[hnd] \in Seq(Served)
    BY DEF LoopInv, Held, WsTypeOK, PeerTypes
  <2>2. Continues(srv[hnd], srv[hnd])
    BY <2>1, LenNat DEF Continues
  <2> QED
    BY <2>2 DEF ReaderStays
<1>2. CASE Peer
  <2>1. connected
    BY <1>2 DEF Peer, ServerBegins, ServerSends, ServerDrops
  <2> QED
    BY <1>2, <2>1, PeerLeavesReader
<1>3. ASSUME NEW s, NEW r, Disconnect(s, r)
      PROVE  connected /\ UNCHANGED <<hnd, srv, pos, insync>>
  BY <1>3 DEF Disconnect, Cleanup, peervars
<1>4. CASE Running
  <2>1. CASE PollDropParse \/ PollDrop \/ on_close \/ on_close_end
    BY <1>1, <1>3, <2>1
    DEF PollDropParse, PollDrop, on_close, on_close_end, DisconnectAt, revoltc_ws_disconnect
  <2>2. CASE ~(PollDropParse \/ PollDrop \/ on_close \/ on_close_end)
    <3>1. connected /\ UNCHANGED <<hnd, srv, pos, insync>>
      BY <1>4, <2>2
      DEF Running, RunAuthenticate, PollReauthenticate, AuthenticateAt, RunStart, RunCheck,
          RunStop, PollSend, on_ping, Callback, revoltc_ws_send, peervars, wsvars
    <3> QED
      BY <1>1, <3>1
  <2> QED
    BY <2>1, <2>2
<1>5. CASE Main
  <2>1. CASE revolt_cleanup
    BY <1>1, <1>3, <2>1 DEF revolt_cleanup, revoltc_ws_delete
  <2>2. CASE ~revolt_cleanup
    <3>1. connected /\ UNCHANGED <<hnd, srv, pos, insync>>
      BY <1>5, <2>2
      DEF Main, MainSetOn, MainSend, MainSpawn, revolt_stop, MainJoin, MainAgain,
          MainDone, vars, peervars, wsvars
    <3> QED
      BY <1>1, <3>1
  <2> QED
    BY <2>1, <2>2
<1>6. CASE UNCHANGED vars
  BY <1>1, <1>6 DEF vars, peervars, wsvars
<1> QED
  BY <1>2, <1>4, <1>5, <1>6 DEF Next, PeerStep

LEMMA DispatchStays ==
  ASSUME Order, [Next]_vars, ~PollReceive, pc' = "dispatch"
  PROVE  pc = "dispatch" /\ rx' = rx /\ wire' = wire /\ ~Connecting
<1>1. ~Connecting /\ ~Running
  BY DEF Connecting, RunConnect, PollReconnect, ConnectAt, Running, RunAuthenticate,
      PollReauthenticate, AuthenticateAt, RunStart, RunCheck, RunStop, PollSend,
      PollDropParse, PollDrop, on_close, on_close_end, DisconnectAt, on_ping, Callback
<1>2. ~revolt_cleanup
  BY DEF Order, revolt_cleanup
<1> QED
  BY <1>1, <1>2
  DEF Next, Main, MainSetOn, MainSend, MainSpawn, revolt_stop, MainJoin, MainAgain,
      MainDone, PeerStep, Peer, ServerBegins, ServerSends, ServerDrops, vars, loopvars,
      wsvars

(* A receive in step goes forward, past the frame it returns.               *)
LEMMA ReceiveMoves ==
  ASSUME LoopInv, PollReceive, connected', insync'[hnd]
  PROVE  /\ connected /\ hnd' = hnd /\ insync[hnd] /\ UNCHANGED <<wire, srv>>
         /\ pos[hnd] \in Nat /\ pos'[hnd] \in Nat
         /\ pos[hnd] <= pos'[hnd]
         /\ pc' = "dispatch" =>
              /\ pos[hnd] + 1 <= pos'[hnd] /\ Pending(hnd)
              /\ Ping(srv[hnd][pos[hnd] + 1], rx'.data) \/ rx'.op # "PING"
<1>1. PICK fr \in Replies \cup {NoFrame}, r \in Results :
        /\ revoltc_ws_recv(fr, r)
        /\ rx' = fr
        /\ pc' = AfterReceive(fr, r)
  BY DEF PollReceive
<1>2. connected /\ UNCHANGED <<hnd, wire, srv>> /\ hnd \in Handles
  BY <1>1 DEF revoltc_ws_recv, LoopInv, Held
<1>3. pos[hnd] \in Nat /\ pos \in [Handles -> Nat] /\ srv[hnd] \in Seq(Served)
  BY <1>2 DEF LoopInv, WsTypeOK, PeerTypes
<1>4. pc' = "dispatch" => r = "OK" /\ fr # NoFrame
  BY <1>1 DEF AfterReceive
<1>5. insync \in [Handles -> BOOLEAN]
  BY DEF LoopInv, WsTypeOK, FlagTypes
<1> DEFINE Goal == /\ pos'[hnd] \in Nat /\ pos[hnd] <= pos'[hnd]
                   /\ fr # NoFrame =>
                        /\ pos[hnd] + 1 <= pos'[hnd] /\ Pending(hnd)
                        /\ srv[hnd][pos[hnd] + 1].op = fr.op
                        /\ srv[hnd][pos[hnd] + 1].data = fr.data
<1>6. fr = NoFrame /\ UNCHANGED <<pos, insync>> => Goal
  BY <1>3
<1>7. insync[hnd] /\ ReadFrame(fr, r) => Goal
  <2> SUFFICES ASSUME ReadFrame(fr, r) PROVE Goal
    OBVIOUS
  <2>1. ~(insync' = [insync EXCEPT ![hnd] = FALSE])
    BY <1>2, <1>5
  <2> DEFINE f == srv[hnd][pos[hnd] + 1]
             g == [op |-> f.op, data |-> f.data]
  <2>2. Pending(hnd) /\ fr = g /\ pos' = [pos EXCEPT ![hnd] = @ + 1] => Goal
    <3>1. pos' = [pos EXCEPT ![hnd] = @ + 1] => pos'[hnd] = pos[hnd] + 1
      BY <1>2, <1>3
    <3> QED
      BY <1>3, <3>1
  <2>3. Pending(hnd) /\ (fr # NoFrame => fr = g) /\ OverRead(r) => Goal
    <3> SUFFICES ASSUME Pending(hnd), fr # NoFrame => fr = g, OverRead(r) PROVE Goal
      OBVIOUS
    <3>1. PICK p \in (pos[hnd] + 1) .. Len(srv[hnd]) : pos' = [pos EXCEPT ![hnd] = p]
      BY DEF OverRead
    <3>2. pos'[hnd] = p /\ p \in Nat /\ pos[hnd] + 1 <= p
      BY <1>2, <1>3, <3>1, LenNat
    <3> QED
      BY <1>3, <3>2
  <2>4. \/ Pending(hnd) /\ fr = g /\ pos' = [pos EXCEPT ![hnd] = @ + 1]
        \/ Pending(hnd) /\ (fr # NoFrame => fr = g) /\ OverRead(r)
        \/ fr = NoFrame /\ UNCHANGED <<pos, insync>>
    BY <2>1 DEF ReadFrame
  <2> HIDE DEF f, g, Goal
  <2> QED
    BY <1>6, <2>2, <2>3, <2>4
<1>8. ~(~insync[hnd] /\ ReadGarbage(fr, r))
  BY DEF ReadGarbage
<1>9. \/ fr = NoFrame /\ UNCHANGED <<pos, insync>>
      \/ insync[hnd] /\ ReadFrame(fr, r)
  BY <1>1, <1>8, Zenon DEF revoltc_ws_recv
<1>10. insync[hnd]
  BY <1>9, Zenon
<1>11. Goal
  <2> HIDE DEF Goal
  <2> QED
    BY <1>6, <1>7, <1>9, Zenon
<1>12. pc' = "dispatch" => rx'.op # "PING" \/ Ping(srv[hnd][pos[hnd] + 1], rx'.data)
  BY <1>1, <1>4, <1>11 DEF Ping
<1> QED
  BY <1>1, <1>2, <1>3, <1>4, <1>10, <1>11, <1>12

(* The inductive invariant: what is written on the current connection        *)
(* answers pings read from it, and a ping that waits to be answered is        *)
(* beyond all of those.                                                      *)
Due(w, s, n, d) == \E k \in 1 .. n : Ping(s[k], d) /\ Answers(w, s, k - 1)
InStep == connected /\ insync[hnd]
AnswersNow == InStep => Answers(wire[hnd], srv[hnd], pos[hnd])
PingDue ==
  InStep /\ pc = "dispatch" /\ rx.op = "PING" =>
    Due(wire[hnd], srv[hnd], pos[hnd], rx.data)
PongInv == AnswersNow /\ PingDue

LEMMA ReaderTypes ==
  ASSUME LoopInv, connected
  PROVE  /\ hnd \in Handles /\ srv[hnd] \in Seq(Served) /\ Len(srv[hnd]) \in Nat
         /\ pos[hnd] \in Nat /\ pos[hnd] <= Len(srv[hnd])
<1>1. hnd \in Handles
  BY DEF LoopInv, Held
<1> QED
  BY <1>1, LenNat DEF LoopInv, WsTypeOK, PeerTypes

LEMMA DueOn ==
  ASSUME NEW w, NEW s, NEW t, NEW n \in Nat, NEW d, n <= Len(s), Len(s) \in Nat,
         Continues(s, t), Due(w, s, n, d)
  PROVE  Due(w, t, n, d)
<1>1. PICK k \in 1 .. n : Ping(s[k], d) /\ Answers(w, s, k - 1)
  BY DEF Due
<1>2. k - 1 \in Nat /\ k - 1 <= k - 1 /\ k - 1 <= Len(s) /\ t[k] = s[k]
  BY DEF Continues
<1>3. Answers(w, t, k - 1)
  BY <1>1, <1>2, AnswersOn
<1> QED
  BY <1>1, <1>2, <1>3 DEF Due

(* A receive: what it returns, if a ping, is the next to be answered.       *)
LEMMA ReceiveAnswers ==
  ASSUME LoopInv, PongInv, PollReceive
  PROVE  PongInv'
<1> SUFFICES ASSUME InStep'
             PROVE  AnswersNow' /\ PingDue'
  BY DEF PongInv, AnswersNow, PingDue
<1>1. hnd' = hnd
  BY DEF PollReceive, revoltc_ws_recv
<1>2. connected' /\ insync'[hnd]
  BY <1>1, Zenon DEF InStep
<1>3. /\ connected /\ insync[hnd] /\ UNCHANGED <<wire, srv>>
      /\ pos[hnd] \in Nat /\ pos'[hnd] \in Nat
      /\ pos[hnd] <= pos'[hnd]
      /\ pc' = "dispatch" =>
           /\ pos[hnd] + 1 <= pos'[hnd] /\ Pending(hnd)
           /\ Ping(srv[hnd][pos[hnd] + 1], rx'.data) \/ rx'.op # "PING"
  BY <1>2, ReceiveMoves
<1>4. Answers(wire[hnd], srv[hnd], pos[hnd])
  BY <1>3, Zenon DEF PongInv, AnswersNow, InStep
<1>5. /\ Len(srv[hnd]) \in Nat /\ pos[hnd] <= Len(srv[hnd])
      /\ Continues(srv[hnd], srv[hnd])
  BY <1>3, ReaderTypes DEF Continues
<1> DEFINE w == wire[hnd]
           s == srv[hnd]
           n == pos[hnd]
           m == pos'[hnd]
           d == rx'.data
<1>6. Answers(w, s, m)
  <2> HIDE DEF w, s, n, m
  <2>1. Answers(w, s, n) /\ n \in Nat /\ m \in Nat /\ n <= m /\ n <= Len(s) /\ Len(s) \in Nat
        /\ Continues(s, s)
    BY <1>3, <1>4, <1>5 DEF w, s, n, m
  <2> QED
    BY <2>1, AnswersOn
<1>7. pc' = "dispatch" /\ rx'.op = "PING" => Due(w, s, m, d)
  <2> SUFFICES ASSUME pc' = "dispatch", rx'.op = "PING" PROVE Due(w, s, m, d)
    OBVIOUS
  <2>1. n \in Nat /\ m \in Nat /\ n + 1 <= m /\ Ping(s[n + 1], d) /\ Answers(w, s, n)
    BY <1>3, <1>4
  <2> HIDE DEF w, s, n, m, d
  <2>2. n + 1 \in 1 .. m /\ (n + 1) - 1 = n
    BY <2>1
  <2> QED
    BY <2>1, <2>2 DEF Due
<1> QED
  BY <1>1, <1>3, <1>6, <1>7 DEF AnswersNow, PingDue

(* A connect: on a fresh handle there is nothing to answer for.             *)
LEMMA ConnectAnswers ==
  ASSUME LoopInv, Blank, PongInv, Connecting
  PROVE  PongInv'
<1>1. PICK r \in Results : revoltc_ws_connect(r) /\ pc' # "dispatch"
  BY DEF Connecting, RunConnect, PollReconnect, ConnectAt
<1>2. PingDue'
  BY <1>1 DEF PingDue
<1>3. CASE connected
  <2>1. UNCHANGED <<hnd, connected, wire, srv, pos, insync>>
    BY <1>1, <1>3 DEF revoltc_ws_connect, peervars
  <2> QED
    BY <1>2, <2>1 DEF PongInv, AnswersNow, InStep
<1>4. CASE ~connected
  <2> SUFFICES ASSUME connected' PROVE AnswersNow'
    BY <1>2 DEF PongInv, AnswersNow, InStep
  <2>1. PICK h \in Handles : hs[h] = "unused" /\ hnd' = h /\ wire' = wire
    BY <1>1, <1>4 DEF revoltc_ws_connect
  <2>2. Answering(wire'[hnd']) = {}
    BY <2>1 DEF Blank
  <2>3. \A w, s, n : Answering(w) = {} => Answers(w, s, n)
    BY AnswersNone
  <2> QED
    BY <2>2, <2>3 DEF AnswersNow
<1> QED
  BY <1>3, <1>4

(* Any other step writes one frame more at most: the answer to the ping that *)
(* waits, or none.                                                          *)
WritesNoAnswer ==
  \/ wire'[hnd] = wire[hnd]
  \/ \E f : OneMore(wire[hnd], wire'[hnd], f) /\ (f.op # "PONG" \/ f.data \in Msgs)
WritesAnswer ==
  /\ pc = "dispatch" /\ rx.op = "PING"
  /\ \E f : OneMore(wire[hnd], wire'[hnd], f) /\ f.data = rx.data

LEMMA AddsOne ==
  ASSUME NEW op, NEW data, NEW whole, Adds(op, data, whole)
  PROVE  \E f : /\ OneMore(wire[hnd], wire'[hnd], f)
                /\ f.op = op /\ f.data = data
<1> DEFINE f == [op |-> op, data |-> data, whole |-> whole]
<1>1. OneMore(wire[hnd], wire'[hnd], f)
  BY DEF Adds, OneMore
<1>2. f.op = op /\ f.data = data
  OBVIOUS
<1> QED
  BY <1>1, <1>2

LEMMA StepWritesAnswer ==
  ASSUME LoopInv, [Next]_vars, connected'
  PROVE  WritesNoAnswer \/ WritesAnswer
<1>1. CASE Quiet
  BY <1>1 DEF Quiet, WritesNoAnswer
<1>2. ASSUME NEW whole \in BOOLEAN, Adds("TEXT", AUTH, whole) PROVE WritesNoAnswer
  BY <1>2, AddsOne DEF WritesNoAnswer
<1>3. ASSUME NEW whole \in BOOLEAN, tx # <<>>, Adds(tx[Len(tx)].op, tx[Len(tx)].data, whole)
      PROVE  WritesNoAnswer
  <2>1. tx[Len(tx)].data \in Msgs
    BY <1>3, EntryOutgoing DEF LoopInv, LoopTypes, Entries
  <2> QED
    BY <1>3, <2>1, AddsOne DEF WritesNoAnswer
<1>4. ASSUME NEW whole \in BOOLEAN, Adds("PONG", rx.data, whole),
             pc = "dispatch", rx.op = "PING"
      PROVE  WritesAnswer
  BY <1>4, AddsOne DEF WritesAnswer
<1> QED
  BY <1>1, <1>2, <1>3, <1>4, StepAdds

LEMMA OtherAnswers ==
  ASSUME LoopInv, PongInv, [Next]_vars, ~Connecting, ~PollReceive
  PROVE  PongInv'
<1> SUFFICES ASSUME InStep' PROVE PongInv'
  BY DEF PongInv, AnswersNow, PingDue
<1>1. connected'
  BY Zenon DEF InStep
<1>2. ReaderStays
  BY <1>1, ReaderLeft
<1>3. connected /\ hnd' = hnd /\ pos'[hnd] = pos[hnd] /\ Continues(srv[hnd], srv'[hnd])
  BY <1>2 DEF ReaderStays
<1>4. InStep
  BY <1>2, Zenon DEF InStep, ReaderStays
<1> DEFINE w == wire[hnd]
           v == wire'[hnd]
           s == srv[hnd]
           t == srv'[hnd]
           n == pos[hnd]
           d == rx.data
<1>5. Answers(w, s, n)
  BY <1>4 DEF PongInv, AnswersNow
<1>6. pc = "dispatch" /\ rx.op = "PING" => Due(w, s, n, d)
  BY <1>4 DEF PongInv, PingDue
<1>7. n \in Nat /\ Len(s) \in Nat /\ n <= Len(s) /\ Continues(s, t)
  BY <1>3, ReaderTypes
<1>8. Answers(v, s, n)
  <2>1. CASE WritesNoAnswer
    <3> HIDE DEF s, n
    <3>1. wire'[hnd] = wire[hnd] => Answers(v, s, n)
      BY <1>5
    <3>2. ASSUME NEW f, OneMore(wire[hnd], wire'[hnd], f), f.op # "PONG" \/ f.data \in Msgs
          PROVE  Answers(v, s, n)
      <4> HIDE DEF v, w
      <4>1. OneMore(w, v, f)
        BY <3>2 DEF v, w
      <4> QED
        BY <1>5, <3>2, <4>1, AnswersOther
    <3> QED
      BY <2>1, <3>1, <3>2 DEF WritesNoAnswer
  <2>2. CASE WritesAnswer
    <3>1. PICK f : OneMore(w, v, f) /\ f.data = d
      BY <2>2 DEF WritesAnswer
    <3>2. Due(w, s, n, d)
      BY <1>6, <2>2 DEF WritesAnswer
    <3> HIDE DEF w, v, s, n, d
    <3>3. PICK k \in 1 .. n : Ping(s[k], d) /\ Answers(w, s, k - 1)
      BY <3>2 DEF Due
    <3>4. k \in Nat \ {0} /\ k \in Nat /\ k <= n /\ k <= Len(s) /\ Ping(s[k], f.data)
      BY <1>7, <3>1, <3>3
    <3>5. Answers(v, s, k)
      BY <3>1, <3>3, <3>4, AnswersPong
    <3>6. Continues(s, s)
      BY DEF Continues
    <3> QED
      BY <1>7, <3>4, <3>5, <3>6, AnswersOn
  <2> QED
    BY <1>1, <2>1, <2>2, StepWritesAnswer
<1>9. AnswersNow'
  <2>1. Answers(v, t, n)
    <3> HIDE DEF v, s, t, n
    <3>1. n <= n
      BY <1>7
    <3> QED
      BY <1>7, <1>8, <3>1, AnswersOn
  <2> QED
    BY <1>3, <2>1 DEF AnswersNow
<1>10. PingDue'
  <2> SUFFICES ASSUME pc' = "dispatch", rx'.op = "PING"
               PROVE  Due(wire'[hnd], srv'[hnd], pos'[hnd], rx'.data)
    BY <1>3 DEF PingDue
  <2>1. pc = "dispatch" /\ rx' = rx /\ wire' = wire
    BY DispatchStays DEF LoopInv
  <2>2. Due(w, s, n, d)
    BY <1>6, <2>1
  <2>3. Due(w, t, n, d)
    <3> HIDE DEF w, s, t, n, d
    <3> QED
      BY <1>7, <2>2, DueOn
  <2> QED
    BY <1>3, <2>1, <2>3
<1> QED
  BY <1>9, <1>10 DEF PongInv

(* Pings are answered in order and once, on the connection they came in on:  *)
(* on_ping answers the frame revolt_ws_poll has just taken, and no other     *)
(* step of the loop writes a pong of its own (ws.c 162-180, 230-290).        *)
THEOREM PongsAnswerPingsThm == Spec => []PongsAnswerPings
<1>1. Init => PongInv
  BY DEF Init, WsInit, PongInv, AnswersNow, PingDue, InStep
<1>2. LoopInv /\ Blank /\ PongInv /\ [Next]_vars => PongInv'
  BY ReceiveAnswers, ConnectAnswers, OtherAnswers
<1>3. ConnectionHeld /\ PongInv => PongsAnswerPings
  BY DEF ConnectionHeld, PongInv, AnswersNow, InStep, PongsAnswerPings
<1> QED
  BY <1>1, <1>2, <1>3, LoopInvAlways, BlankAlways, SpecIsWs, ConnectionHeldAlways, PTL
  DEF Spec

=============================================================================
