-------------------------- MODULE FrameReaderProps --------------------------
(***************************************************************************)
(* FrameReader implements what Websocket says of revoltc_ws_recv: the      *)
(* frame-level module sees a call when it returns, the frames it used up   *)
(* at that moment, and the peer's frames when they are complete.           *)
(***************************************************************************)
EXTENDS FrameReader

CONSTANTS conn, NULL, Data, Long, NORMAL, PROTOCOL_ERR

Served == Len(out) - (IF InFrame THEN 1 ELSE 0)

Frames == INSTANCE Websocket WITH
  Handles <- {conn},
  Outgoing <- {},
  MaxWire <- 0,
  hnd <- conn,
  connected <- TRUE,
  hs <- [h \in {conn} |-> IF link = "up" THEN "up" ELSE "eof"],
  wire <- [h \in {conn} |-> <<>>],
  srv <- [h \in {conn} |->
            [i \in 1 .. Served |-> [op |-> out[i].frame.op,
                                    data |-> out[i].frame.data,
                                    split |-> out[i].split]]],
  pos <- [h \in {conn} |-> pos],
  half <- [h \in {conn} |-> IF ~InFrame THEN "no"
                            ELSE IF out[Len(out)].split THEN "head" ELSE "body"],
  insync <- [h \in {conn} |-> insync],
  gone <- FALSE

(* The frames of both modules are the same ones, refused for the same reason. *)
ASSUME SameFrames ==
  /\ Replies \subseteq [op : Frames!Opcodes, data : Data]
  /\ Nothing = Frames!NoFrame
  /\ Refused = {f \in Replies : Frames!TooLong(f)}
  /\ Large = {f \in Replies : f.data \in Long}

(* Every call returns what revoltc_ws_recv of Websocket allows at the moment *)
(* it returns, with the frames it has used up by then; everything else is a  *)
(* step of the peer or not seen (502-646).                                   *)
ImplementsRecv ==
  [][IF ~reading' /\ (reading \/ got' # got)
     THEN Frames!revoltc_ws_recv(got'.frame, got'.result)
     ELSE (Frames!Peer \/ UNCHANGED Frames!wsvars) /\ UNCHANGED got]_vars
=============================================================================
