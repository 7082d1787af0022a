------------------------------- MODULE Session -------------------------------
(***************************************************************************)
(* A connection from revoltc_ws_connect to the frames sent on it, byte by  *)
(* byte: Handshake, then FrameWriter; and that the two together do what    *)
(* Websocket says of revoltc_ws_connect and revoltc_ws_send.               *)
(***************************************************************************)
EXTENDS Handshake, FrameWriter

CONSTANTS conn, NULL, NORMAL, PROTOCOL_ERR

ASSUME OneAllocator == NoMemory = AllocMayFail
ASSUME CallersFrames ==    \* a CLOSE is sent by revoltc_ws_disconnect
  \A f \in Outgoing : f.opcode \in {0, 1, 2, 9, 10} /\ f.len <= PayloadMax

svars == <<hvars, wvars>>

connected == result = "OK"

SessionInit == Init /\ WriterInit

(* One thread: no call while another is in progress. *)
Connecting == sending = <<>> /\ revoltc_ws_connect /\ UNCHANGED wvars
Sending == at \in {"idle", "done"} /\ WriterNext(connected) /\ UNCHANGED hvars

SessionNext == Connecting \/ Sending \/ (HandshakePeer /\ UNCHANGED wvars)

Session == SessionInit /\ [][SessionNext]_svars /\ WF_svars(Connecting /\ GoesOn)

-----------------------------------------------------------------------------
OpcodeName(n) ==
  CASE n = 0 -> "CONT" [] n = 1 -> "TEXT" [] n = 2 -> "BINARY"
    [] n = 8 -> "CLOSE" [] n = 9 -> "PING" [] n = 10 -> "PONG"

AsFrame(f) == [op |-> OpcodeName(f.opcode), data |-> f]

Attempted == at = "done" /\ result \notin {"CURL_INIT", "NONE"}

Frames == INSTANCE Websocket WITH
  Handles <- {conn},
  Data <- Outgoing,
  Long <- {f \in Outgoing : f.len > 125},
  Outgoing <- {AsFrame(f) : f \in Outgoing},
  Replies <- {},
  SplitHeaders <- FALSE,
  MaxWire <- MaxSent,
  MaxServed <- 0,
  hnd <- IF Attempted THEN conn ELSE NULL,
  hs <- [h \in {conn} |-> IF ~Attempted THEN "unused"
                          ELSE IF connected THEN "up" ELSE "raw"],
  wire <- [h \in {conn} |->
            [i \in DOMAIN wire |-> [op |-> OpcodeName(wire[i].frame.opcode),
                                    data |-> wire[i].frame,
                                    whole |-> wire[i].whole]]],
  srv <- [h \in {conn} |-> <<>>],
  pos <- [h \in {conn} |-> 0],
  half <- [h \in {conn} |-> "no"],
  insync <- [h \in {conn} |-> TRUE],
  gone <- FALSE

(* When a call returns it has done what Websocket says of it, and nothing is *)
(* seen of it before: connected and hnd change together behind the whole     *)
(* handshake, every frame is written once, wholly or partly as the result    *)
(* says, and a control frame that is too long not at all.                    *)
ImplementsWebsocket ==
  [][\/ UNCHANGED Frames!wsvars
     \/ Frames!revoltc_ws_connect(IF result' \in {"NOMEM", "TIMEOUT", "SEND",
                                                  "DISCONNECT", "PARSE"}
                                  THEN "HANDSHAKE" ELSE result')
     \/ \E f \in Outgoing :
          /\ sent'.frame \in {f, NoFrame}
          /\ Frames!revoltc_ws_send(AsFrame(f), sent'.result)]_svars
=============================================================================
