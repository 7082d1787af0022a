------------------------------ MODULE Websocket ------------------------------
(***************************************************************************)
(* One RevoltcWS object (lib/core/websocket.c), the curl handles it opens  *)
(* and the peer at the other end of each, at the granularity of whole      *)
(* frames.  Every operation is an operator parameterised by its result, so *)
(* that a caller (EventLoop) can take one API call as one of its steps.    *)
(*                                                                         *)
(* A frame is a record [op, data].  The bytes of a frame, the header codec *)
(* and the byte-wise read loop are abstracted to what a caller can tell    *)
(* apart: which frames went out whole, partly or not at all, and how far   *)
(* the reader has come in what the peer has sent.                          *)
(***************************************************************************)
EXTENDS Naturals, Sequences

CONSTANTS
  Handles,       \* the curl handles curl_easy_init may hand out
  NULL,          \* the null pointer
  Data,          \* payloads
  NORMAL,        \* close status 1000, the payload of a CLOSE
  PROTOCOL_ERR,  \* close status 1002
  Long,          \* those of more than REVOLTC_WS_PAYLOAD_MAXS_CNTRL bytes
  Outgoing,      \* the frames a caller may ask to send
  Replies,       \* the frames the peer may send
  AllocMayFail,  \* may malloc return NULL?
  SplitHeaders,  \* may the bytes of one frame header arrive in two parts?
  MaxWire,       \* bound: frames sent with revoltc_ws_send on one connection
  MaxServed      \* bound: frames the peer sends on one connection

Opcodes == {"CONT", "TEXT", "BINARY", "CLOSE", "PING", "PONG"}
Control == {"CLOSE", "PING", "PONG"}

(* The close status codes the library sends, the payload of its CLOSE frames. *)
Status == {NORMAL, PROTOCOL_ERR}

ASSUME HandlesAssumption == NULL \notin Handles
ASSUME LongAssumption == Long \subseteq Data /\ Long \cap Status = {}
ASSUME FramesAssumption ==
  /\ Outgoing \subseteq [op : Opcodes \ {"CLOSE"}, data : Data]
  /\ Replies \subseteq [op : Opcodes, data : Data]
ASSUME FlagsAssumption == AllocMayFail \in BOOLEAN /\ SplitHeaders \in BOOLEAN
ASSUME BoundsAssumption == MaxWire \in Nat /\ MaxServed \in Nat

(* The REVOLTE_ codes these functions return.  "HANDSHAKE" stands for every *)
(* error of ws_handshake: no caller tells them apart.                       *)
Results == {"OK", "NOT_CONNECTED", "NOMEM", "PARSE", "SEND", "TIMEOUT",
            "CURL", "CURL_INIT", "HANDSHAKE", "DISCONNECT",
            "INSUFFICIENT_DATA"}

NoFrame == [op |-> "NONE", data |-> NULL]

VARIABLES
  hnd,        \* ws->hnd
  connected,  \* ws->connected
  hs,         \* state of every curl handle
  wire,       \* frames written to the connection, with whether all of them was
  srv,        \* frames the peer has sent completely
  pos,        \* how many of them the reader has consumed
  half,       \* how much of a further frame the peer has sent
  insync,     \* is the reader at a frame boundary?
  gone        \* has revoltc_ws_delete freed the object?

peervars == <<srv, pos, half, insync>>
wsvars == <<hnd, connected, hs, wire, srv, pos, half, insync, gone>>

Upgraded(h) == hs[h] \in {"up", "eof"}
Pending(h) == pos[h] < Len(srv[h])

(* The reader is inside a frame of which bytes are still missing, and its   *)
(* loop has no way out: ws_recv_raw answers "no data" at once, whatever its *)
(* timeout, and revoltc_ws_recv asks again.                                 *)
Spinning(h) == hs[h] = "up" /\ insync[h] /\ ~Pending(h) /\ half[h] # "no"

(* Frames as the wire and the peer's record hold them. *)
Sent == [op : Opcodes, data : Data \cup Status, whole : BOOLEAN]
Served == [op : Opcodes, data : Data, split : BOOLEAN]

TooLong(f) == f.op \in Control /\ f.data \in Long

-----------------------------------------------------------------------------
WsInit ==
  /\ hnd = NULL
  /\ connected = FALSE
  /\ hs = [h \in Handles |-> "unused"]
  /\ wire = [h \in Handles |-> <<>>]
  /\ srv = [h \in Handles |-> <<>>]
  /\ pos = [h \in Handles |-> 0]
  /\ half = [h \in Handles |-> "no"]
  /\ insync = [h \in Handles |-> TRUE]
  /\ gone = FALSE

(* Faulty: connects again although connected. *)
ConnectsTwice(r) ==
  /\ r \in {"OK", "CURL", "HANDSHAKE"}
  /\ \E h \in Handles :
       /\ hs[h] = "unused"
       /\ hnd' = h
       /\ hs' = [hs EXCEPT ![h] = IF r = "OK" THEN "up" ELSE "raw"]
       /\ connected' = (r = "OK")
  /\ UNCHANGED <<wire, peervars, gone>>

(* A failed attempt keeps its handle in hnd; the next attempt overwrites it. *)
revoltc_ws_connect(r) ==
  /\ \/ connected /\ r = "OK" /\ UNCHANGED <<hnd, connected, hs>>
     \/ /\ ~connected
        /\ r = "CURL_INIT"
        /\ hnd' = NULL
        /\ UNCHANGED <<connected, hs>>
     \/ /\ ~connected
        /\ r \in {"OK", "CURL", "HANDSHAKE"}
        /\ \E h \in Handles :
             /\ hs[h] = "unused"
             /\ hnd' = h
             /\ hs' = [hs EXCEPT ![h] = IF r = "OK" THEN "up" ELSE "raw"]
             /\ connected' = (r = "OK")
  /\ UNCHANGED <<wire, peervars, gone>>

Written(f, whole) ==
  [wire EXCEPT ![hnd] =
     Append(@, [op |-> f.op, data |-> f.data, whole |-> whole])]

(* The loop repeats only while nothing was taken (CURLE_AGAIN), so a timeout *)
(* leaves no byte behind and a short write leaves part of the frame.         *)
ws_send_raw(f, r) ==
  \/ r = "OK" /\ wire' = Written(f, TRUE)
  \/ r = "SEND" /\ wire' = Written(f, FALSE)
  \/ r \in {"TIMEOUT", "CURL"} /\ UNCHANGED wire

revoltc_ws_send(f, r) ==
  /\ \/ ~connected /\ r = "NOT_CONNECTED" /\ UNCHANGED wire
     \/ connected /\ AllocMayFail /\ r = "NOMEM" /\ UNCHANGED wire
     \/ connected /\ TooLong(f) /\ r = "PARSE" /\ UNCHANGED wire
     \/ /\ connected
        /\ ~TooLong(f)
        /\ Len(wire[hnd]) < MaxWire
        /\ ws_send_raw(f, r)
  /\ UNCHANGED <<hnd, connected, hs, peervars, gone>>

(* After consuming frame pos+1 whose header came in two parts the reader may *)
(* hold bytes of the following ones, which it throws away; if there are not  *)
(* enough of them it reports INSUFFICIENT_DATA for a complete frame.         *)
OverRead(r) ==
  /\ r \in {"OK", "INSUFFICIENT_DATA"}
  /\ \E p \in (pos[hnd] + 1) .. Len(srv[hnd]) :
       /\ r = "INSUFFICIENT_DATA" => p = Len(srv[hnd])
       /\ pos' = [pos EXCEPT ![hnd] = p]
       /\ \E sync \in BOOLEAN :
            /\ ~sync => p < Len(srv[hnd]) \/ half[hnd] # "no"
            /\ r = "INSUFFICIENT_DATA" /\ half[hnd] # "no" => ~sync
            /\ insync' = [insync EXCEPT ![hnd] = sync]

(* What the next frame may be once its header has come: for one the peer is  *)
(* still in the middle of, any.                                              *)
Arriving(h) ==
  IF Pending(h)
  THEN {[op |-> srv[h][pos[h] + 1].op, data |-> srv[h][pos[h] + 1].data]}
  ELSE {g \in Replies : half[h] # "no"}

(* A reader at a frame boundary. *)
ReadFrame(fr, r) ==
  LET f == srv[hnd][pos[hnd] + 1]
      g == [op |-> f.op, data |-> f.data]
  IN \/ /\ Pending(hnd) /\ ~TooLong(g)
        /\ fr = g /\ r = "OK"
        /\ pos' = [pos EXCEPT ![hnd] = @ + 1]
        /\ UNCHANGED insync
     \/ /\ Pending(hnd) /\ ~TooLong(g) /\ f.split
        /\ fr = (IF r = "OK" THEN g ELSE NoFrame)
        /\ OverRead(r)
     \/ /\ \E a \in Arriving(hnd) : TooLong(a)
        /\ fr = NoFrame /\ r = "PARSE"
        /\ insync' = [insync EXCEPT ![hnd] = FALSE]
        /\ UNCHANGED pos
     \/ /\ AllocMayFail /\ \E a \in Arriving(hnd) : a.data \in Long   \* realloc
        /\ fr = NoFrame /\ r = "NOMEM"
        /\ insync' = [insync EXCEPT ![hnd] = FALSE]
        /\ UNCHANGED pos
     \/ /\ ~Pending(hnd) /\ hs[hnd] = "up" /\ half[hnd] = "no"
        /\ fr = NoFrame /\ r = "OK"
        /\ UNCHANGED <<pos, insync>>
     \/ /\ hs[hnd] = "eof"               \* a reset drops what was pending
        /\ fr = NoFrame /\ r = "DISCONNECT"
        /\ UNCHANGED <<pos, insync>>

(* A reader in the middle of a frame takes payload bytes for headers: any    *)
(* frame, any error.                                                         *)
ReadGarbage(fr, r) ==
  /\ r \in {"OK", "PARSE", "INSUFFICIENT_DATA", "DISCONNECT"}
  /\ r = "DISCONNECT" => hs[hnd] = "eof"
  /\ fr = NoFrame \/ (r = "OK" /\ ~TooLong(fr))
  /\ \E p \in pos[hnd] .. Len(srv[hnd]) : pos' = [pos EXCEPT ![hnd] = p]
  /\ UNCHANGED insync

revoltc_ws_recv(fr, r) ==
  /\ \/ /\ ~connected
        /\ fr = NoFrame /\ r = "NOT_CONNECTED"
        /\ UNCHANGED <<pos, insync>>
     \/ /\ connected
        /\ fr = NoFrame
        /\ r = "CURL" \/ (AllocMayFail /\ r = "NOMEM")
        /\ UNCHANGED <<pos, insync>>
     \/ connected /\ insync[hnd] /\ ReadFrame(fr, r)
     \/ connected /\ ~insync[hnd] /\ ReadGarbage(fr, r)
  /\ UNCHANGED <<hnd, connected, hs, wire, srv, half, gone>>

(* Faulty: cleans up the handle and keeps using it. *)
CleanupOnly ==
  /\ hs' = [h \in Handles |-> IF h = hnd THEN "freed" ELSE hs[h]]
  /\ UNCHANGED <<hnd, connected, peervars>>

(* curl_easy_cleanup closes the connection: what the peer sent goes with it. *)
Cleanup ==
  /\ hnd' = NULL
  /\ connected' = FALSE
  /\ hs' = [h \in Handles |-> IF h = hnd THEN "freed" ELSE hs[h]]
  /\ srv' = [h \in Handles |-> IF h = hnd THEN <<>> ELSE srv[h]]
  /\ pos' = [h \in Handles |-> IF h = hnd THEN 0 ELSE pos[h]]
  /\ half' = [h \in Handles |-> IF h = hnd THEN "no" ELSE half[h]]
  /\ insync' = [h \in Handles |-> IF h = hnd THEN TRUE ELSE insync[h]]

(* Faulty: gives up without cleaning up when the CLOSE went out only partly. *)
DisconnectGivesUp(status, r) ==
  \/ ~connected /\ r = "OK" /\ Cleanup /\ UNCHANGED wire
  \/ /\ connected /\ r = "SEND"
     /\ ws_send_raw([op |-> "CLOSE", data |-> status], r)
     /\ UNCHANGED <<hnd, connected, hs, peervars>>
  \/ /\ connected /\ r = "OK" /\ Cleanup
     /\ ws_send_raw([op |-> "CLOSE", data |-> status], r)

(* Without memory for the status the call returns with nothing done; else it *)
(* sends CLOSE, waits for one frame only if all of the CLOSE went out, and   *)
(* cleans up whatever became of either.                                      *)
Disconnect(status, r) ==
  \/ ~connected /\ r = "OK" /\ Cleanup /\ UNCHANGED wire
  \/ /\ connected /\ AllocMayFail /\ r = "NOMEM"
     /\ UNCHANGED <<hnd, connected, hs, peervars, wire>>
  \/ /\ connected /\ r = "OK" /\ Cleanup
     /\ \E sent \in Results :
          /\ ws_send_raw([op |-> "CLOSE", data |-> status], sent)
          /\ sent = "OK" => ~Spinning(hnd)

revoltc_ws_disconnect(status, r) == Disconnect(status, r) /\ UNCHANGED gone

(* Faulty: frees the object without disconnecting. *)
DeleteOnly(r) ==
  /\ r = "OK" /\ gone' = TRUE
  /\ UNCHANGED <<hnd, connected, hs, wire, peervars>>

revoltc_ws_delete(r) == Disconnect(NORMAL, r) /\ gone' = TRUE

-----------------------------------------------------------------------------
(* The peer.  It sends frames whole or in two parts, and may close or lose   *)
(* the connection at any time, in the middle of a frame too.                 *)
ServerBegins(h) ==
  /\ hs[h] = "up" /\ half[h] = "no" /\ Len(srv[h]) < MaxServed
  /\ \E part \in {"head", "body"} :
       /\ part = "head" => SplitHeaders
       /\ half' = [half EXCEPT ![h] = part]
  /\ UNCHANGED <<hnd, connected, hs, wire, srv, pos, insync, gone>>

ServerSends(h) ==
  /\ hs[h] = "up" /\ Len(srv[h]) < MaxServed
  /\ \E f \in Replies :
       srv' = [srv EXCEPT ![h] = Append(@,
                 [op |-> f.op, data |-> f.data, split |-> half[h] = "head"])]
  /\ half' = [half EXCEPT ![h] = "no"]
  /\ UNCHANGED <<hnd, connected, hs, wire, pos, insync, gone>>

ServerDrops(h) ==
  /\ hs[h] = "up"
  /\ hs' = [hs EXCEPT ![h] = "eof"]
  /\ UNCHANGED <<hnd, connected, wire, peervars, gone>>

Peer ==
  \E h \in Handles : ServerBegins(h) \/ ServerSends(h) \/ ServerDrops(h)

(* A caller that takes the operations in any order until it deletes the      *)
(* object.                                                                   *)
Caller ==
  /\ ~gone
  /\ \/ \E r \in Results : revoltc_ws_connect(r)
     \/ \E f \in Outgoing, r \in Results : revoltc_ws_send(f, r)
     \/ \E fr \in Replies \cup {NoFrame}, r \in Results : revoltc_ws_recv(fr, r)
     \/ \E s \in Status, r \in Results : revoltc_ws_disconnect(s, r)
     \/ \E r \in Results : revoltc_ws_delete(r)

WsNext == Peer \/ Caller

WsSpec == WsInit /\ [][WsNext]_wsvars

-----------------------------------------------------------------------------
(* Types; the reader is never ahead of what the peer has sent.               *)
FlagTypes ==
  connected \in BOOLEAN /\ gone \in BOOLEAN /\ insync \in [Handles -> BOOLEAN]
HandleTypes ==
  /\ hnd \in Handles \cup {NULL}
  /\ hs \in [Handles -> {"unused", "raw", "up", "eof", "freed"}]
WireType == wire \in [Handles -> Seq(Sent)]
PeerTypes ==
  /\ srv \in [Handles -> Seq(Served)]
  /\ pos \in [Handles -> Nat]
  /\ \A h \in Handles : pos[h] <= Len(srv[h])
  /\ half \in [Handles -> {"no", "head", "body"}]

WsTypeOK == FlagTypes /\ HandleTypes /\ WireType /\ PeerTypes

(* connected says the truth about the handle: it is set exactly while hnd is *)
(* an upgraded connection, and no other handle is one.  Reconnecting may     *)
(* lose a handle whose attempt failed, never a live connection, and hnd is   *)
(* never a handle that was cleaned up (connect 322-350, disconnect 352-396). *)
ConnectionHeld ==
  /\ \A h \in Handles : Upgraded(h) <=> connected /\ h = hnd
  /\ hnd # NULL => hs[hnd] # "freed"

(* A CLOSE frame ends a connection: disconnect sends it last, and nothing is *)
(* ever written after it, whether it went out whole or not (352-396).        *)
CloseIsLast ==
  \A h \in Handles : \A i \in 1 .. Len(wire[h]) :
    wire[h][i].op = "CLOSE" => i = Len(wire[h]) /\ hs[h] = "freed"

(* A control frame over the limit is refused before a byte of it is written: *)
(* ws_serialize_header refuses it (ILLEGAL_PAYLOAD_LEN, 660).                *)
ControlWithinLimit ==
  \A h \in Handles : \A i \in 1 .. Len(wire[h]) : ~TooLong(wire[h][i])

(* Only the handle in hnd is ever written to, read from or cleaned up, and a *)
(* handle that was cleaned up is not touched again: its state and what was   *)
(* written to it stay as they are (no use after curl_easy_cleanup).          *)
OnlyCurrentTouched ==
  [][\A h \in Handles :
       /\ wire'[h] # wire[h] => h = hnd /\ Upgraded(h)
       /\ hs[h] = "freed" => hs'[h] = "freed"
       /\ hs'[h] = "freed" => hs[h] = "freed" \/ h = hnd]_wsvars

(* Deleting the object leaves no connection open, unless disconnect had no   *)
(* memory to say goodbye (revoltc_ws_delete ignores its result, 316-320).    *)
DeleteReleases ==
  gone /\ ~AllocMayFail => \A h \in Handles : ~Upgraded(h)
=============================================================================
