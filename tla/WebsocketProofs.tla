--------------------------- MODULE WebsocketProofs ---------------------------
(***************************************************************************)
(* Safety of one RevoltcWS object, for any handles, frames and bounds.     *)
(* ConnectionHeld is the heart of it: what is written, closed or cleaned   *)
(* up is decided by connected and hnd alone, so everything else rests on   *)
(* the two telling the truth about the handles.                            *)
(***************************************************************************)
EXTENDS Websocket, TLAPS

LEMMA LenNat == ASSUME NEW S, NEW s \in Seq(S) PROVE Len(s) \in Nat
  OBVIOUS

LEMMA AppendOne ==
  ASSUME NEW S, NEW s \in Seq(S), NEW e \in S
  PROVE  /\ Append(s, e) \in Seq(S)
         /\ Len(s) \in Nat
         /\ Len(Append(s, e)) = Len(s) + 1
  OBVIOUS

(* What one frame more does to the sequences of a connection.               *)
LEMMA AppendAt ==
  ASSUME NEW S, NEW s \in [Handles -> Seq(S)], NEW g, NEW e \in S
  PROVE  /\ [s EXCEPT ![g] = Append(@, e)] \in [Handles -> Seq(S)]
         /\ \A h \in Handles : Len(s[h]) <= Len([s EXCEPT ![g] = Append(@, e)][h])
<1>1. \A h \in Handles : s[h] \in Seq(S)
  OBVIOUS
<1>2. \A h \in Handles :
        /\ Append(s[h], e) \in Seq(S)
        /\ Len(Append(s[h], e)) = Len(s[h]) + 1
        /\ Len(s[h]) \in Nat
  BY <1>1, AppendOne
<1>3. \A h \in Handles :
        [s EXCEPT ![g] = Append(@, e)][h] = IF h = g THEN Append(s[h], e) ELSE s[h]
  OBVIOUS
<1>4. [s EXCEPT ![g] = Append(@, e)] \in [Handles -> Seq(S)]
  BY <1>2
<1> QED
  BY <1>2, <1>3, <1>4

LEMMA WrittenType ==
  ASSUME wire \in [Handles -> Seq(Sent)],
         NEW op \in Opcodes, NEW data \in Data \cup Status, NEW whole \in BOOLEAN
  PROVE  Written([op |-> op, data |-> data], whole) \in [Handles -> Seq(Sent)]
<1>1. [op |-> op, data |-> data, whole |-> whole] \in Sent
  BY DEF Sent
<1> QED
  BY <1>1, AppendAt DEF Written


(* Every variable keeps its type.                                            *)
LEMMA WsTypesInit == WsInit => WsTypeOK
<1> SUFFICES ASSUME WsInit PROVE WsTypeOK
  OBVIOUS
<1>1. FlagTypes
  BY DEF WsInit, FlagTypes
<1>2. HandleTypes
  BY DEF WsInit, HandleTypes
<1>3. WireType
  BY DEF WsInit, WireType
<1>4. PeerTypes
  BY DEF WsInit, PeerTypes
<1> QED
  BY <1>1, <1>2, <1>3, <1>4 DEF WsTypeOK

LEMMA ConnectTypes ==
  ASSUME WsTypeOK, NEW r \in Results, revoltc_ws_connect(r)
  PROVE  WsTypeOK'
<1> USE DEF revoltc_ws_connect, peervars
<1>1. UNCHANGED <<wire, srv, pos, half, insync, gone>>
  OBVIOUS
<1>2. FlagTypes'
  BY <1>1, Zenon DEF WsTypeOK, FlagTypes
<1>3. HandleTypes'
  BY DEF WsTypeOK, HandleTypes
<1>4. WireType' /\ PeerTypes'
  BY <1>1 DEF WsTypeOK, WireType, PeerTypes
<1> QED
  BY <1>2, <1>3, <1>4 DEF WsTypeOK

LEMMA SendTypes ==
  ASSUME WsTypeOK, NEW f \in Outgoing, NEW r \in Results, revoltc_ws_send(f, r)
  PROVE  WsTypeOK'
<1>1. f.op \in Opcodes /\ f.data \in Data
  BY FramesAssumption
<1>2. WireType'
  <2>1. WireType
    BY DEF WsTypeOK
  <2>2. \A whole \in BOOLEAN : Written(f, whole) \in [Handles -> Seq(Sent)]
    BY <1>1, <2>1, WrittenType DEF Written, WireType
  <2> QED
    BY <2>1, <2>2 DEF WireType, revoltc_ws_send, ws_send_raw
<1>3. UNCHANGED <<hnd, connected, hs, srv, pos, half, insync, gone>>
  BY DEF revoltc_ws_send, peervars
<1> QED
  BY <1>2, <1>3 DEF WsTypeOK, FlagTypes, HandleTypes, PeerTypes

LEMMA RecvTypes ==
  ASSUME WsTypeOK, NEW fr, NEW r \in Results, revoltc_ws_recv(fr, r)
  PROVE  WsTypeOK'
<1>1. UNCHANGED <<hnd, connected, hs, wire, srv, half, gone>>
  BY DEF revoltc_ws_recv
<1>2. insync' \in [Handles -> BOOLEAN]
  <2>1. insync \in [Handles -> BOOLEAN]
    BY DEF WsTypeOK, FlagTypes
  <2>2. \A sync \in BOOLEAN : [insync EXCEPT ![hnd] = sync] \in [Handles -> BOOLEAN]
    BY <2>1
  <2>3. CASE ReadFrame(fr, r)
    BY <2>1, <2>2, <2>3 DEF ReadFrame, OverRead
  <2>4. CASE ReadGarbage(fr, r)
    BY <2>1, <2>4 DEF ReadGarbage
  <2>5. CASE insync' = insync
    BY <2>1, <2>5
  <2> QED
    BY <2>3, <2>4, <2>5, Zenon DEF revoltc_ws_recv
<1>3. pos' \in [Handles -> Nat] /\ \A h \in Handles : pos'[h] <= Len(srv[h])
  <2> USE DEF WsTypeOK, PeerTypes
  <2>1. \/ pos' = pos
        \/ pos' = [pos EXCEPT ![hnd] = @ + 1] /\ Pending(hnd)
        \/ \E p \in pos[hnd] .. Len(srv[hnd]) : pos' = [pos EXCEPT ![hnd] = p]
    BY DEF revoltc_ws_recv, ReadFrame, ReadGarbage, OverRead
  <2>2. \A h \in Handles : Len(srv[h]) \in Nat /\ pos[h] \in Nat
    <3>1. \A h \in Handles : srv[h] \in Seq(Served)
      OBVIOUS
    <3> QED
      BY <3>1, LenNat
  <2>3. CASE pos' = [pos EXCEPT ![hnd] = @ + 1] /\ Pending(hnd)
    <3>1. \A h \in Handles : pos'[h] = IF h = hnd THEN pos[h] + 1 ELSE pos[h]
      BY <2>3
    <3>2. \A h \in Handles : pos'[h] \in Nat /\ pos'[h] <= Len(srv[h])
      BY <2>2, <2>3, <3>1 DEF Pending
    <3>3. pos' = [h \in Handles |-> pos'[h]]
      BY <2>3
    <3> QED
      BY <3>2, <3>3
  <2>4. CASE \E p \in pos[hnd] .. Len(srv[hnd]) : pos' = [pos EXCEPT ![hnd] = p]
    <3>1. PICK p \in pos[hnd] .. Len(srv[hnd]) : pos' = [pos EXCEPT ![hnd] = p]
      BY <2>4
    <3>2. \A h \in Handles : pos'[h] = IF h = hnd THEN p ELSE pos[h]
      BY <3>1
    <3>3. \A h \in Handles : pos'[h] \in Nat /\ pos'[h] <= Len(srv[h])
      BY <2>2, <3>2
    <3>4. pos' = [h \in Handles |-> pos'[h]]
      BY <3>1
    <3> QED
      BY <3>3, <3>4
  <2> QED
    BY <2>1, <2>3, <2>4
<1> QED
  BY <1>1, <1>2, <1>3 DEF WsTypeOK, FlagTypes, HandleTypes, WireType, PeerTypes

LEMMA DisconnectTypes ==
  ASSUME WsTypeOK, NEW s \in Status, NEW r \in Results, Disconnect(s, r),
         gone' \in BOOLEAN
  PROVE  WsTypeOK'
<1>1. WireType'
  <2>1. WireType
    BY DEF WsTypeOK
  <2>2. \A whole \in BOOLEAN :
          Written([op |-> "CLOSE", data |-> s], whole) \in [Handles -> Seq(Sent)]
    BY <2>1, WrittenType DEF WireType, Opcodes
  <2> QED
    BY <2>1, <2>2 DEF WireType, Disconnect, ws_send_raw
<1>2. CASE Cleanup
  <2>1. FlagTypes'
    BY <1>2 DEF Cleanup, WsTypeOK, FlagTypes
  <2>2. HandleTypes'
    BY <1>2 DEF Cleanup, WsTypeOK, HandleTypes
  <2>3. PeerTypes'
    BY <1>2 DEF Cleanup, WsTypeOK, PeerTypes
  <2> QED
    BY <1>1, <2>1, <2>2, <2>3 DEF WsTypeOK
<1>3. CASE UNCHANGED <<hnd, connected, hs, peervars>>
  BY <1>1, <1>3 DEF peervars, WsTypeOK, FlagTypes, HandleTypes, PeerTypes
<1> QED
  BY <1>2, <1>3 DEF Disconnect

LEMMA PeerStepTypes ==
  ASSUME WsTypeOK, Peer
  PROVE  WsTypeOK'
<1> PICK h \in Handles : ServerBegins(h) \/ ServerSends(h) \/ ServerDrops(h)
  BY DEF Peer
<1>1. CASE ServerBegins(h)
  BY <1>1 DEF ServerBegins, WsTypeOK, FlagTypes, HandleTypes, WireType, PeerTypes
<1>2. CASE ServerSends(h)
  <2>1. PICK f \in Replies :
          srv' = [srv EXCEPT ![h] = Append(@,
             [op |-> f.op, data |-> f.data, split |-> half[h] = "head"])]
    BY <1>2 DEF ServerSends
  <2>2. [op |-> f.op, data |-> f.data, split |-> half[h] = "head"] \in Served
    BY FramesAssumption DEF Served
  <2>3. /\ srv' \in [Handles -> Seq(Served)]
        /\ \A g \in Handles : Len(srv[g]) <= Len(srv'[g])
    BY <2>1, <2>2, AppendAt DEF WsTypeOK, PeerTypes
  <2>4. \A g \in Handles : /\ Len(srv[g]) \in Nat
                            /\ Len(srv'[g]) \in Nat
                            /\ pos[g] \in Nat
    BY <2>3 DEF WsTypeOK, PeerTypes
  <2>5. \A g \in Handles : pos[g] <= Len(srv'[g])
    BY <2>3, <2>4 DEF WsTypeOK, PeerTypes
  <2>6. PeerTypes'
    BY <1>2, <2>3, <2>5 DEF ServerSends, WsTypeOK, PeerTypes
  <2>7. UNCHANGED <<hnd, connected, hs, wire, insync, gone>>
    BY <1>2 DEF ServerSends
  <2> QED
    BY <2>6, <2>7 DEF WsTypeOK, FlagTypes, HandleTypes, WireType
<1>3. CASE ServerDrops(h)
  BY <1>3
  DEF ServerDrops, peervars, WsTypeOK, FlagTypes, HandleTypes, WireType, PeerTypes
<1> QED
  BY <1>1, <1>2, <1>3

THEOREM WsTypeCorrect == WsSpec => []WsTypeOK
<1>1. WsTypeOK /\ [WsNext]_wsvars => WsTypeOK'
  <2> SUFFICES ASSUME WsTypeOK, [WsNext]_wsvars PROVE WsTypeOK'
    OBVIOUS
  <2>1. ASSUME NEW s \in Status, NEW r \in Results, revoltc_ws_disconnect(s, r)
        PROVE  WsTypeOK'
    BY <2>1, DisconnectTypes DEF revoltc_ws_disconnect, WsTypeOK, FlagTypes
  <2>2. ASSUME NEW r \in Results, revoltc_ws_delete(r) PROVE WsTypeOK'
    BY <2>2, DisconnectTypes DEF revoltc_ws_delete, Status
  <2>3. CASE UNCHANGED wsvars
    BY <2>3
    DEF wsvars, WsTypeOK, FlagTypes, HandleTypes, WireType, PeerTypes
  <2> QED
    BY <2>1, <2>2, <2>3, ConnectTypes, SendTypes, RecvTypes, PeerStepTypes
    DEF WsNext, Caller
<1> QED
  BY <1>1, WsTypesInit, PTL DEF WsSpec

-----------------------------------------------------------------------------
(* What a step does to the handles: one is opened by connect, and only the   *)
(* current one changes otherwise.                                            *)
LEMMA HandleStep ==
  ASSUME WsTypeOK, ConnectionHeld, [WsNext]_wsvars
  PROVE  /\ ConnectionHeld'
         /\ \A h \in Handles : hs[h] = "freed" => hs'[h] = "freed"
         /\ \A h \in Handles : hs'[h] = "freed" => hs[h] = "freed" \/ h = hnd
<1> USE DEF WsTypeOK, HandleTypes, ConnectionHeld, Upgraded
<1> DEFINE Goal ==
      /\ ConnectionHeld'
      /\ \A h \in Handles : hs[h] = "freed" => hs'[h] = "freed"
      /\ \A h \in Handles : hs'[h] = "freed" => hs[h] = "freed" \/ h = hnd
<1>1. ASSUME NEW r \in Results, revoltc_ws_connect(r) PROVE Goal
  <2>1. CASE connected
    BY <1>1, <2>1 DEF revoltc_ws_connect
  <2>2. CASE ~connected /\ hnd' = NULL /\ UNCHANGED <<connected, hs>>
    BY <2>2, HandlesAssumption
  <2>3. CASE /\ ~connected
             /\ \E h \in Handles :
                  /\ hs[h] = "unused"
                  /\ hnd' = h
                  /\ hs' = [hs EXCEPT ![h] = IF r = "OK" THEN "up" ELSE "raw"]
                  /\ connected' = (r = "OK")
    <3>1. PICK g \in Handles :
            /\ hs[g] = "unused"
            /\ hnd' = g
            /\ hs' = [hs EXCEPT ![g] = IF r = "OK" THEN "up" ELSE "raw"]
            /\ connected' = (r = "OK")
      BY <2>3
    <3>2. \A h \in Handles :
            hs'[h] = IF h = g THEN (IF r = "OK" THEN "up" ELSE "raw") ELSE hs[h]
      BY <3>1
    <3>3. \A h \in Handles : ~Upgraded(h)
      BY <2>3
    <3> QED
      BY <3>1, <3>2, <3>3
  <2> QED
    BY <1>1, <2>1, <2>2, <2>3 DEF revoltc_ws_connect
<1>2. CASE UNCHANGED <<hnd, connected, hs>>
  BY <1>2
<1>3. ASSUME Cleanup PROVE Goal
  <2>1. hnd' = NULL /\ connected' = FALSE
    BY <1>3 DEF Cleanup
  <2>2. \A h \in Handles : hs'[h] = IF h = hnd THEN "freed" ELSE hs[h]
    BY <1>3 DEF Cleanup
  <2> QED
    BY <2>1, <2>2, HandlesAssumption
<1>4. ASSUME NEW h \in Handles, ServerDrops(h) PROVE Goal
  <2>1. \A g \in Handles : hs'[g] = IF g = h THEN "eof" ELSE hs[g]
    BY <1>4 DEF ServerDrops
  <2>2. hs[h] = "up" /\ UNCHANGED <<hnd, connected>>
    BY <1>4 DEF ServerDrops
  <2> QED
    BY <2>1, <2>2
<1>5. CASE Caller
  <2>1. ASSUME NEW s, NEW r \in Results, Disconnect(s, r) PROVE Goal
    BY <1>2, <1>3, <2>1 DEF Disconnect
  <2> QED
    BY <1>1, <1>2, <1>5, <2>1
    DEF Caller, revoltc_ws_send, revoltc_ws_recv, revoltc_ws_disconnect,
        revoltc_ws_delete
<1>6. CASE Peer
  BY <1>2, <1>4, <1>6 DEF Peer, ServerBegins, ServerSends
<1>7. CASE UNCHANGED wsvars
  BY <1>2, <1>7 DEF wsvars
<1> QED
  BY <1>5, <1>6, <1>7 DEF WsNext

(* What a step does to the wire: it appends to the current connection a      *)
(* frame within the limits, and to clean up after a CLOSE is part of the     *)
(* step that writes it.                                                      *)
LEMMA WireStep ==
  ASSUME WsTypeOK, [WsNext]_wsvars,
         NEW h \in Handles, wire'[h] # wire[h]
  PROVE  /\ h = hnd /\ connected
         /\ \E f \in Sent :
                  /\ wire'[h] = Append(wire[h], f)
                  /\ ~TooLong(f)
                  /\ f.op = "CLOSE" => hs'[h] = "freed"
<1> DEFINE Goal ==
      /\ h = hnd /\ connected
      /\ \E f \in Sent :
               /\ wire'[h] = Append(wire[h], f)
               /\ ~TooLong(f)
               /\ f.op = "CLOSE" => hs'[h] = "freed"
<1>1. ASSUME NEW op \in Opcodes, NEW data \in Data \cup Status, NEW whole \in BOOLEAN,
             wire' = Written([op |-> op, data |-> data], whole),
             ~TooLong([op |-> op, data |-> data]),
             connected, op = "CLOSE" => hs'[hnd] = "freed"
      PROVE  Goal
  <2> DEFINE f == [op |-> op, data |-> data, whole |-> whole]
  <2>1. f \in Sent /\ ~TooLong(f)
    BY <1>1 DEF Sent, TooLong
  <2>2. wire'[h] = IF h = hnd THEN Append(wire[h], f) ELSE wire[h]
    BY <1>1 DEF Written, WsTypeOK, WireType
  <2> QED
    BY <1>1, <2>1, <2>2
<1>2. ASSUME NEW f \in Outgoing, NEW r \in Results, revoltc_ws_send(f, r) PROVE Goal
  <2>1. f = [op |-> f.op, data |-> f.data] /\ f.op \in Opcodes \ {"CLOSE"} /\ f.data \in Data
    BY FramesAssumption
  <2>2. connected /\ ~TooLong(f) /\ \E whole \in BOOLEAN : wire' = Written(f, whole)
    BY <1>2 DEF revoltc_ws_send, ws_send_raw
  <2> QED
    BY <1>1, <2>1, <2>2
<1>3. ASSUME NEW s \in Status, NEW r, Disconnect(s, r) PROVE Goal
  <2>1. connected /\ Cleanup
    BY <1>3 DEF Disconnect
  <2>2. \E whole \in BOOLEAN : wire' = Written([op |-> "CLOSE", data |-> s], whole)
    BY <1>3 DEF Disconnect, ws_send_raw
  <2>3. ~TooLong([op |-> "CLOSE", data |-> s])
    BY LongAssumption DEF TooLong
  <2>4. hnd \in Handles => hs'[hnd] = "freed"
    BY <2>1 DEF Cleanup
  <2>5. h = hnd
    BY <2>2 DEF Written, WsTypeOK, WireType
  <2> QED
    BY <1>1, <2>1, <2>2, <2>3, <2>4, <2>5 DEF Opcodes
<1>4. UNCHANGED wire => Goal
  OBVIOUS
<1>5. CASE Caller
  BY <1>2, <1>3, <1>4, <1>5
  DEF Caller, revoltc_ws_connect, revoltc_ws_recv, revoltc_ws_disconnect,
      revoltc_ws_delete, Status
<1>6. CASE Peer
  BY <1>4, <1>6 DEF Peer, ServerBegins, ServerSends, ServerDrops
<1> QED
  BY <1>4, <1>5, <1>6 DEF WsNext, wsvars

-----------------------------------------------------------------------------
(* connected and hnd tell the truth about the handles (websocket.c 322-396). *)
THEOREM ConnectionHeldAlways == WsSpec => []ConnectionHeld
<1>1. WsInit => ConnectionHeld
  BY DEF WsInit, ConnectionHeld, Upgraded
<1>2. WsTypeOK /\ ConnectionHeld /\ [WsNext]_wsvars => ConnectionHeld'
  BY HandleStep
<1> QED
  BY <1>1, <1>2, WsTypeCorrect, PTL DEF WsSpec

(* Only the current, upgraded handle is written to, and a handle that was    *)
(* cleaned up stays so: curl is never handed a dangling handle.              *)
THEOREM OnlyCurrentTouchedAlways == WsSpec => OnlyCurrentTouched
<1> DEFINE Step ==
      \A h \in Handles :
        /\ wire'[h] # wire[h] => h = hnd /\ Upgraded(h)
        /\ hs[h] = "freed" => hs'[h] = "freed"
        /\ hs'[h] = "freed" => hs[h] = "freed" \/ h = hnd
<1>1. WsTypeOK /\ ConnectionHeld /\ [WsNext]_wsvars => Step
  BY HandleStep, WireStep DEF ConnectionHeld
<1>2. WsTypeOK /\ ConnectionHeld /\ [WsNext]_wsvars => [Step]_wsvars
  BY <1>1
<1> QED
  BY <1>2, WsTypeCorrect, ConnectionHeldAlways, PTL DEF WsSpec, OnlyCurrentTouched

(* Nothing follows a CLOSE on a connection (revoltc_ws_disconnect).          *)
THEOREM CloseIsLastAlways == WsSpec => []CloseIsLast
<1>1. WsInit => CloseIsLast
  BY DEF WsInit, CloseIsLast
<1>2. ASSUME WsTypeOK, ConnectionHeld, CloseIsLast, [WsNext]_wsvars
      PROVE  CloseIsLast'
  <2> SUFFICES ASSUME NEW h \in Handles, NEW i \in 1 .. Len(wire'[h]),
                      wire'[h][i].op = "CLOSE"
               PROVE  i = Len(wire'[h]) /\ hs'[h] = "freed"
    BY DEF CloseIsLast
  <2>1. CASE wire'[h] = wire[h]
    BY <1>2, <2>1, HandleStep DEF CloseIsLast
  <2>2. CASE wire'[h] # wire[h]
    <3>1. PICK f \in Sent : /\ wire'[h] = Append(wire[h], f)
                            /\ f.op = "CLOSE" => hs'[h] = "freed"
      BY <1>2, <2>2, WireStep
    <3>2. hs[h] # "freed"
      BY <1>2, <2>2, WireStep DEF ConnectionHeld, Upgraded
    <3>3. \A j \in 1 .. Len(wire[h]) : wire[h][j].op # "CLOSE"
      BY <1>2, <3>2 DEF CloseIsLast
    <3>4. wire[h] \in Seq(Sent)
      BY <1>2 DEF WsTypeOK, WireType
    <3>5. /\ wire'[h][i] = IF i = Len(wire[h]) + 1 THEN f ELSE wire[h][i]
          /\ i # Len(wire[h]) + 1 => i \in 1 .. Len(wire[h])
          /\ Len(wire'[h]) = Len(wire[h]) + 1
      BY <3>1, <3>4
    <3> QED
      BY <3>1, <3>3, <3>5
  <2> QED
    BY <2>1, <2>2
<1> QED
  BY <1>1, <1>2, WsTypeCorrect, ConnectionHeldAlways, PTL DEF WsSpec

(* No control frame over the limit is ever written (ILLEGAL_PAYLOAD_LEN in   *)
(* revoltc_ws_serialize_header).                                             *)
THEOREM ControlWithinLimitAlways == WsSpec => []ControlWithinLimit
<1>1. WsInit => ControlWithinLimit
  BY DEF WsInit, ControlWithinLimit
<1>2. ASSUME WsTypeOK, ControlWithinLimit, [WsNext]_wsvars
      PROVE  ControlWithinLimit'
  <2> SUFFICES ASSUME NEW h \in Handles, NEW i \in 1 .. Len(wire'[h])
               PROVE  ~TooLong(wire'[h][i])
    BY DEF ControlWithinLimit, TooLong
  <2>1. CASE wire'[h] = wire[h]
    BY <1>2, <2>1 DEF ControlWithinLimit
  <2>2. CASE wire'[h] # wire[h]
    <3>1. PICK f \in Sent : wire'[h] = Append(wire[h], f) /\ ~TooLong(f)
      BY <1>2, <2>2, WireStep
    <3>2. wire[h] \in Seq(Sent)
      BY <1>2 DEF WsTypeOK, WireType
    <3>3. wire'[h][i] = IF i = Len(wire[h]) + 1 THEN f ELSE wire[h][i]
      BY <3>1, <3>2
    <3>4. i # Len(wire[h]) + 1 => i \in 1 .. Len(wire[h])
      BY <3>1, <3>2
    <3> QED
      BY <1>2, <3>1, <3>3, <3>4 DEF ControlWithinLimit
  <2> QED
    BY <2>1, <2>2
<1> QED
  BY <1>1, <1>2, WsTypeCorrect, PTL DEF WsSpec

(* Without allocation failures nothing stays open once the object is freed.  *)
THEOREM DeleteReleasesAlways == WsSpec => []DeleteReleases
<1> DEFINE Gone == gone /\ ~AllocMayFail => ~connected
<1>1. WsInit => Gone
  BY DEF WsInit
<1>2. Gone /\ [WsNext]_wsvars => Gone'
  <2> SUFFICES ASSUME Gone, [WsNext]_wsvars PROVE Gone'
    OBVIOUS
  <2>1. ASSUME NEW r, revoltc_ws_delete(r) PROVE Gone'
    BY <2>1 DEF revoltc_ws_delete, Disconnect, Cleanup
  <2>2. CASE Caller
    BY <2>1, <2>2
    DEF Caller, revoltc_ws_connect, revoltc_ws_send, revoltc_ws_recv,
        revoltc_ws_disconnect
  <2>3. CASE Peer \/ UNCHANGED wsvars
    BY <2>3 DEF Peer, ServerBegins, ServerSends, ServerDrops, wsvars
  <2> QED
    BY <2>2, <2>3 DEF WsNext
<1>3. Gone /\ ConnectionHeld => DeleteReleases
  BY DEF DeleteReleases, ConnectionHeld
<1> QED
  BY <1>1, <1>2, <1>3, ConnectionHeldAlways, PTL DEF WsSpec

=============================================================================
