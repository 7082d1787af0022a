----------------------------- MODULE FrameWriter -----------------------------
(***************************************************************************)
(* revoltc_ws_send (lib/core/websocket.c 280-293, 398-498): the buffer a   *)
(* frame is put together in, the mask laid over it and the loop that sends *)
(* it.  Of a payload one byte is followed, at any index; where the mask    *)
(* ends is kept beside.                                                    *)
(***************************************************************************)
EXTENDS HeaderCodec

CONSTANTS
  Outgoing,    \* frames a caller may send: [opcode, len, masked, key, index, byte]
  NoMemory,    \* may malloc return NULL?
  MaxSent      \* bound: frames sent

ASSUME OutgoingAssumption ==
  \A f \in Outgoing :
    /\ f.opcode \in 0 .. 15 /\ f.masked \in 0 .. 1
    /\ f.key \in Nat /\ f.key \div 65536 <= 65535
    /\ f.len \in Nat /\ f.index \in Nat /\ f.byte \in Byte
ASSUME WriterAssumption == NoMemory \in BOOLEAN /\ MaxSent \in Nat

VARIABLES
  sending,   \* the frames in the send loop: none or one
  reach,     \* bytes of the buffer that have been written to
  wire,      \* what has been sent
  sent       \* what the last call of revoltc_ws_send returned

wvars == <<sending, reach, wire, sent>>

NoFrame == <<>>   \* of a call that would have refused any frame

WriterInit ==
  /\ sending = <<>> /\ reach = 0
  /\ wire = <<>> /\ sent = [frame |-> NoFrame, result |-> "NONE"]

(* revoltc_ws_frame__new, or a frame of the caller's own. *)
HeaderOf(f) ==
  [fin |-> 1, rsv |-> 0, opcode |-> f.opcode, masked |-> f.masked,
   key |-> f.key, len |-> f.len]

(* The exclusive or of two bytes: the bits in which they differ.             *)
Xor(a, b) ==
  LET bit(n) == IF (a \div n) % 2 = (b \div n) % 2 THEN 0 ELSE n
  IN bit(128) + bit(64) + bit(32) + bit(16) + bit(8) + bit(4) + bit(2) + bit(1)

(* Faulty: counts the key's bytes from the start of the buffer. *)
MaskFromStart(key, header_len, i, byte) == Xor(byte, key[((header_len + i) % 4) + 1])

(* The byte at index i of the payload when the mask is on it. *)
revoltc_ws_mask(key, header_len, i, byte) == Xor(byte, key[(i % 4) + 1])

LastFour(s) == SubSeq(s, Len(s) - 3, Len(s))

(* The frame as it stands in the buffer. *)
Buffered(f) ==
  LET header == serialize_header(HeaderOf(f)).bytes
  IN [frame |-> f, header |-> header, whole |-> FALSE,
      byte |-> IF f.len > 0 /\ f.masked = 1
               THEN revoltc_ws_mask(LastFour(header), Len(header), f.index, f.byte)
               ELSE f.byte]

(* Faulty: puts the mask over the header, too. *)
ReachTwice(f, header_len) == IF f.len > 0 THEN 3 * header_len + f.len ELSE header_len

(* The mask covers header_len bytes more than the payload. *)
Reach(f, header_len) ==
  IF f.len > 0 /\ f.masked = 1 THEN 2 * header_len + f.len ELSE header_len + f.len

SendReturns(f, r) == sent' = [frame |-> f, result |-> r]

(* The call up to the loop; it may fail before a byte is sent. *)
revoltc_ws_send(f, connected) ==
  LET header == serialize_header(HeaderOf(f))
  IN /\ sending = <<>> /\ Len(wire) < MaxSent
     /\ \/ /\ ~connected /\ SendReturns(NoFrame, "NOT_CONNECTED")
           /\ UNCHANGED <<sending, reach, wire>>
        \/ /\ connected /\ NoMemory /\ SendReturns(NoFrame, "NOMEM")
           /\ UNCHANGED <<sending, reach, wire>>
        \/ /\ connected /\ header.result = "PARSE" /\ SendReturns(f, "PARSE")
           /\ UNCHANGED <<sending, reach, wire>>
        \/ /\ connected /\ header.result = "OK"
           /\ sending' = << Buffered(f) >>
           /\ reach' = Reach(f, Len(header.bytes))
           /\ UNCHANGED <<wire, sent>>

(* CURLE_AGAIN: nothing was taken; when select does not time out, the loop   *)
(* goes round without a change.  Any other error ends it.                    *)
SendFails ==
  /\ sending # <<>>
  /\ \E r \in {"TIMEOUT", "CURL"} : SendReturns(sending[1].frame, r)
  /\ sending' = <<>> /\ reach' = 0
  /\ UNCHANGED wire

(* Faulty: takes a short write for a whole one. *)
SendsAnyPart ==
  /\ sending # <<>>
  /\ wire' = Append(wire, sending[1])
  /\ SendReturns(sending[1].frame, "OK")
  /\ sending' = <<>> /\ reach' = 0

(* curl_easy_send takes all of the buffer or a part; there is no second try. *)
ws_send_raw ==
  /\ sending # <<>>
  /\ \E all \in BOOLEAN :
       /\ wire' = Append(wire, [sending[1] EXCEPT !.whole = all])
       /\ SendReturns(sending[1].frame, IF all THEN "OK" ELSE "SEND")
  /\ sending' = <<>> /\ reach' = 0

WriterNext(connected) ==
  \/ \E f \in Outgoing : revoltc_ws_send(f, connected)
  \/ SendFails \/ ws_send_raw

-----------------------------------------------------------------------------
(* What the peer decodes from a frame that was sent whole is the header and  *)
(* the payload the caller asked for: serialize_header, the place of the key  *)
(* in the buffer and the mask fit together for every length of the header.   *)
PeerReadsFrame ==
  \A i \in DOMAIN wire : wire[i].whole =>
    LET f == wire[i].frame
        d == deserialize_header(wire[i].header)
        key == u32_bytes_be(d.header.key)
    IN /\ d.result = "OK" /\ d.header_len = Len(wire[i].header)
       /\ d.header = IF f.masked = 1 THEN HeaderOf(f)
                     ELSE [HeaderOf(f) EXCEPT !.key = d.header.key]
       /\ f.len > 0 => f.byte = IF f.masked = 1 THEN Xor(wire[i].byte, key[(f.index % 4) + 1])
                                ELSE wire[i].byte

(* A part of a header is never taken for a whole one (694-762), which the    *)
(* loop of revoltc_ws_recv relies on; but for the first two bytes of a short *)
(* masked header, which are decoded without the key.                         *)
PartIsInsufficient ==
  \A i \in DOMAIN wire : \A n \in 0 .. Len(wire[i].header) - 1 :
    \/ deserialize_header(SubSeq(wire[i].header, 1, n)).result = "INSUFFICIENT_DATA"
    \/ n = 2 /\ wire[i].frame.masked = 1 /\ wire[i].frame.len < 126

(* The mask stays inside the buffer of REVOLTC_WS_HEADER_MAXS + payload_len  *)
(* bytes, for frames of less than 126 bytes: the length it is given is one   *)
(* header too long (479-483).                                                *)
ShortFrameStaysInside ==
  \A i \in DOMAIN sending :
    sending[i].frame.len < 126 => reach <= 14 + sending[i].frame.len
=============================================================================
