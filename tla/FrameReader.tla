----------------------------- MODULE FrameReader -----------------------------
(***************************************************************************)
(* revoltc_ws_recv byte by byte (lib/core/websocket.c 503-646): the loop   *)
(* that asks for the bytes it believes it needs, on a stream of frames     *)
(* that arrives in pieces.  The library keeps nothing between two calls,   *)
(* so every byte asked for beyond the frame is lost.                       *)
(*                                                                         *)
(* The stream is the sequence of frames the peer has begun, with offsets.  *)
(* A byte has no value: what the reader learns from the bytes of a header  *)
(* is the frame they begin, and from bytes inside a payload, anything.     *)
(***************************************************************************)
EXTENDS Integers, Sequences

CONSTANTS
  Replies,       \* the frames the peer may send
  HeaderLen,     \* bytes of a frame's header: 2, 4 or 10
  PayloadLen,    \* bytes of its payload
  Refused,       \* the frames ILLEGAL_PAYLOAD_LEN refuses
  Large,         \* those for which the buffer must grow
  Nothing,       \* what a call returns in place of a frame
  AllocMayFail,  \* may malloc return NULL?
  SplitHeaders,  \* may the bytes of one header arrive in two parts?
  MaxServed,     \* bound: frames the peer sends
  MaxNeeded      \* bound: bytes the reader asks for before it has a header

ASSUME LengthsAssumption ==
  /\ HeaderLen \in [Replies -> {2, 4, 10}]
  /\ PayloadLen \in [Replies -> Nat]
ASSUME NothingAssumption == Nothing \notin Replies
ASSUME SetsAssumption == Refused \subseteq Replies /\ Large \subseteq Replies
ASSUME OptionsAssumption == AllocMayFail \in BOOLEAN /\ SplitHeaders \in BOOLEAN
ASSUME LimitsAssumption == MaxServed \in Nat /\ MaxNeeded \in Nat /\ MaxNeeded > 10

Size(f) == HeaderLen[f] + PayloadLen[f]

VARIABLES
  out,      \* the frames the peer has begun: where they end, and how they began
  sent,     \* bytes it has sent of them
  link,     \* is the connection up, closed behind what was sent, or reset?
  reading,  \* is a call of revoltc_ws_recv in progress?
  start,    \* offset of the call's first byte
  taken,    \* bytes read from the socket: nrecv = taken - start
  needed,   \* needed
  guess,    \* what the bytes of the call look like when it began inside a frame
  pos,      \* complete frames the finished calls have used up
  insync,   \* have they all ended at the end of a frame?
  got       \* what the last call returned

vars == <<out, sent, link, reading, start, taken, needed, guess, pos, insync, got>>
peer == <<out, sent, link>>
reader == <<reading, start, taken, needed, guess, pos, insync, got>>

End(i) == IF i = 0 THEN 0 ELSE out[i].end
InFrame == sent < End(Len(out))

Init ==
  /\ out = <<>> /\ sent = 0 /\ link = "up"
  /\ reading = FALSE
  /\ start = 0 /\ taken = 0 /\ needed = 0
  /\ guess = Nothing
  /\ pos = 0 /\ insync = TRUE
  /\ got = [frame |-> Nothing, result |-> "OK"]

-----------------------------------------------------------------------------
(* The peer: the first piece of a frame, and further ones.                   *)
PeerBegins ==
  /\ link = "up" /\ ~InFrame /\ Len(out) < MaxServed
  /\ \E f \in Replies : \E c \in 1 .. Size(f) :
       /\ c < HeaderLen[f] => SplitHeaders
       /\ out' = Append(out, [frame |-> f, end |-> sent + Size(f),
                              split |-> c < HeaderLen[f]])
       /\ sent' = sent + c
  /\ UNCHANGED <<link, reader>>

PeerContinues ==
  /\ link = "up" /\ InFrame
  /\ sent' \in (sent + 1) .. End(Len(out))
  /\ UNCHANGED <<out, link, reader>>

PeerDrops ==
  /\ link = "up"
  /\ link' \in {"closed", "reset"}
  /\ UNCHANGED <<out, sent, reader>>

-----------------------------------------------------------------------------
(* Faulty: asks for the longer header at once. *)
BeginAsksFour ==
  /\ ~reading /\ reading' = TRUE
  /\ start' = taken
  /\ needed' = 4
  /\ IF insync THEN guess' = Nothing ELSE guess' \in Replies
  /\ UNCHANGED <<peer, taken, pos, insync, got>>

Begin ==
  /\ ~reading /\ reading' = TRUE
  /\ start' = taken
  /\ needed' = 2
  /\ IF insync THEN guess' = Nothing ELSE guess' \in Replies
  /\ UNCHANGED <<peer, taken, pos, insync, got>>

BeginWithoutMemory ==
  /\ ~reading /\ AllocMayFail
  /\ got' = [frame |-> Nothing, result |-> "NOMEM"]
  /\ UNCHANGED <<peer, reading, start, taken, needed, guess, pos, insync>>

(* The bytes curl_easy_recv hands over, and what the call has read then.     *)
Least(a, b) == IF a < b THEN a ELSE b
Received == Least(needed - (taken - start), sent - taken)
Offset == taken + Received
nrecv == Offset - start

(* The frame the bytes read so far belong to. *)
Seen == IF insync THEN out[pos + 1].frame ELSE guess

Return(f, r) ==
  /\ reading' = FALSE
  /\ got' = [frame |-> f, result |-> r]
  /\ UNCHANGED <<start, needed, guess>>

(* How far the frames are used up when a call returns with the bytes up to   *)
(* Offset.                                                                   *)
UsedUp ==
  /\ taken' = Offset
  /\ pos' \in 0 .. Len(out)
  /\ End(pos') <= Offset
  /\ pos' < Len(out) => Offset < End(pos' + 1)
  /\ insync' = (insync /\ Offset = End(pos'))

(* ws_recv_raw reports a lost connection; the bytes read before are dropped. *)
RecvLost ==
  /\ reading
  /\ link = "reset" \/ (link = "closed" /\ Received = 0)
  /\ Return(Nothing, "DISCONNECT")
  /\ UNCHANGED <<peer, taken, pos, insync>>

(* "No data, dont block": with nothing read yet the call returns.            *)
RecvNothing ==
  /\ reading /\ link = "up" /\ nrecv = 0
  /\ Return(Nothing, "OK")
  /\ UNCHANGED <<peer, taken, pos, insync>>

Receives == reading /\ link # "reset" /\ nrecv > 0 /\ (Received > 0 \/ link = "up")

(* REVOLTE_INSUFFICIENT_DATA: two bytes more, each time around, whether the  *)
(* ones asked for have come or not.                                          *)
RecvHeader ==
  /\ Receives /\ nrecv < HeaderLen[Seen]
  /\ needed' = Least(needed + 2, MaxNeeded)
  /\ taken' = Offset
  /\ UNCHANGED <<peer, reading, start, guess, pos, insync, got>>

RecvRefused ==
  /\ Receives /\ nrecv >= HeaderLen[Seen] /\ Seen \in Refused
  /\ Return(Nothing, "PARSE")
  /\ taken' = Offset /\ insync' = FALSE
  /\ UNCHANGED <<peer, pos>>

(* Faulty: adds the payload to what was read instead of to the header. *)
PayloadAddsUp ==
  /\ Receives /\ nrecv >= HeaderLen[Seen] /\ nrecv < Size(Seen)
  /\ Seen \notin Refused
  /\ needed' = nrecv + PayloadLen[Seen]
  /\ taken' = Offset
  /\ UNCHANGED <<peer, reading, start, guess, pos, insync, got>>

(* The header is there, the payload not yet: from here on the loop asks for  *)
(* exactly the rest of the frame, until it has come.                         *)
RecvPayload ==
  /\ Receives /\ nrecv >= HeaderLen[Seen] /\ nrecv < Size(Seen)
  /\ Seen \notin Refused
  /\ needed' = Size(Seen)
  /\ taken' = Offset
  /\ UNCHANGED <<peer, reading, start, guess, pos, insync, got>>

RecvCannotGrow ==
  /\ Receives /\ nrecv >= HeaderLen[Seen] /\ nrecv < Size(Seen)
  /\ Seen \in Large \ Refused
  /\ AllocMayFail
  /\ Return(Nothing, "NOMEM")
  /\ taken' = Offset /\ insync' = FALSE
  /\ UNCHANGED <<peer, pos>>

(* Faulty: waits for more than the frame. *)
CompleteTooLate ==
  /\ Receives /\ nrecv > Size(Seen) /\ Seen \notin Refused
  /\ Return(Seen, "OK")
  /\ UsedUp
  /\ UNCHANGED peer

(* All of the frame is there; bytes after it are dropped with the buffer,    *)
(* and if fewer have come than were asked for, so is the frame.              *)
RecvComplete ==
  /\ Receives /\ nrecv >= Size(Seen) /\ Seen \notin Refused
  /\ IF nrecv < needed
     THEN Return(Nothing, "INSUFFICIENT_DATA")
     ELSE Return(Seen, "OK")
  /\ UsedUp
  /\ UNCHANGED peer

-----------------------------------------------------------------------------
Peer == PeerBegins \/ PeerContinues \/ PeerDrops

Recv ==
  \/ RecvLost \/ RecvNothing \/ RecvHeader \/ RecvRefused
  \/ RecvPayload \/ RecvCannotGrow \/ RecvComplete

Next == Peer \/ Begin \/ BeginWithoutMemory \/ Recv

(* The thread in the call runs.  Nothing makes the peer go on.               *)
Spec == Init /\ [][Next]_vars /\ WF_vars(Recv)

-----------------------------------------------------------------------------
(* Types; no more frames are used up than have been begun.                   *)
TypeOK ==
  /\ out \in Seq([frame : Replies, end : Nat, split : BOOLEAN])
  /\ sent \in Nat /\ taken \in Nat /\ start \in Nat /\ needed \in Nat
  /\ link \in {"up", "closed", "reset"}
  /\ reading \in BOOLEAN /\ insync \in BOOLEAN
  /\ guess \in Replies \cup {Nothing}
  /\ pos \in 0 .. Len(out)
  /\ got.frame \in Replies \cup {Nothing}

(* What may become of the frame the reader is at: it is handed over, one per *)
(* call, or refused, or there is no memory for it.                           *)
Kept ==
  \/ /\ pos' = pos + 1 /\ insync'
     /\ got' = [frame |-> out[pos + 1].frame, result |-> "OK"]
  \/ pos' = pos /\ got'.result \in {"PARSE", "NOMEM"}

(* The comment at 500-501 says the reads are exact: every frame that is used *)
(* up is handed over, however its bytes arrive.                              *)
NoFrameLost ==
  [][insync /\ <<pos, insync>>' # <<pos, insync>> => Kept]_vars

(* Did the header of the frame the reader is at arrive in one part?          *)
HeaderWhole == pos < Len(out) => ~out[pos + 1].split

(* A frame whose header arrives whole is handed over, in the order of the    *)
(* stream, or refused, however its payload and the frames around it arrive:  *)
(* the guessing of the header's length (604-608), two bytes at a time, never *)
(* asks for a byte of the next frame.                                        *)
WholeFrameKept ==
  [][insync /\ HeaderWhole /\ <<pos, insync>>' # <<pos, insync>> => Kept]_vars

(* A call returns if the peer, as long as it is connected, completes the     *)
(* frames it begins and the reader has not lost its place.                   *)
CallReturns ==
  []<>(~InFrame \/ link # "up") => (reading /\ insync ~> ~reading)
=============================================================================
