----------------------------- MODULE HeaderCodec -----------------------------
(***************************************************************************)
(* The header of a WebSocket frame as bytes (lib/core/websocket.c 648-762, *)
(* lib/core/util.c 4-45).  A header is a record of numbers; rsv holds the  *)
(* three reserved bits.  The key and the length are split by halves, so    *)
(* that no number larger than the value itself comes up.                   *)
(***************************************************************************)
EXTENDS Integers, Sequences

CONSTANT PayloadMax   \* REVOLTC_WS_PAYLOAD_MAXS, INT64_MAX in the library

ASSUME PayloadMaxAssumption ==
  PayloadMax \in Nat /\ (PayloadMax \div 65536) \div 65536 <= 2147483647

ControlOpcodes == {8, 9, 10}
Byte == 0 .. 255
Unread == -1         \* masking_key, when the function returns without it

ILLEGAL_PAYLOAD_LEN(opcode, len) ==
  len > PayloadMax \/ (len > 125 /\ opcode \in ControlOpcodes)

-----------------------------------------------------------------------------
(* The low 16, 32 or 64 bits of a number, most significant byte first.       *)
u16_bytes_be(v) == << (v \div 256) % 256, v % 256 >>
u32_bytes_be(v) == u16_bytes_be(v \div 65536) \o u16_bytes_be(v)
u64_bytes_be(v) ==
  u32_bytes_be((v \div 65536) \div 65536) \o u32_bytes_be(v)

(* The number in the bytes of b from index i on. *)
bytes_be_u16(b, i) == b[i] * 256 + b[i + 1]
bytes_be_u32(b, i) == bytes_be_u16(b, i) * 65536 + bytes_be_u16(b, i + 2)
bytes_be_u64(b, i) == (bytes_be_u32(b, i) * 65536) * 65536 + bytes_be_u32(b, i + 4)

-----------------------------------------------------------------------------
LengthBytes(h) ==
  IF h.len < 126 THEN << h.masked * 128 + h.len >>
  ELSE IF h.len <= 65535 THEN << h.masked * 128 + 126 >> \o u16_bytes_be(h.len)
  ELSE << h.masked * 128 + 127 >> \o u64_bytes_be(h.len)

serialize_header(h) ==
  IF ILLEGAL_PAYLOAD_LEN(h.opcode, h.len)
  THEN [result |-> "PARSE", bytes |-> <<>>]
  ELSE [result |-> "OK",
        bytes |-> << h.fin * 128 + h.rsv * 16 + h.opcode >> \o LengthBytes(h)
                  \o (IF h.masked = 1 THEN u32_bytes_be(h.key) ELSE <<>>)]

-----------------------------------------------------------------------------
(* What the second byte says: the length, or how many bytes of it follow.    *)
ShortLen(b) == b[2] % 128
Extended(b) == IF ShortLen(b) = 126 THEN 2 ELSE IF ShortLen(b) = 127 THEN 8 ELSE 0
LenIn(b) ==
  IF Extended(b) = 0 THEN ShortLen(b)
  ELSE IF Extended(b) = 2 THEN bytes_be_u16(b, 3) ELSE bytes_be_u64(b, 3)

HeaderIn(b, len, key) ==
  [fin |-> b[1] \div 128, rsv |-> (b[1] \div 16) % 8, opcode |-> b[1] % 16,
   masked |-> b[2] \div 128, key |-> key, len |-> len]

Decoded(r, h, n) == [result |-> r, header |-> h, header_len |-> n]
Undecoded(r) == Decoded(r, <<>>, 0)

(* Faulty: forgets that the key is a part of the header. *)
DecodesWithoutKey(b) ==
  IF Len(b) < 2 \/ Len(b) < 2 + Extended(b) THEN Undecoded("INSUFFICIENT_DATA")
  ELSE IF ILLEGAL_PAYLOAD_LEN(b[1] % 16, LenIn(b)) THEN Undecoded("PARSE")
  ELSE Decoded("OK", HeaderIn(b, LenIn(b), 0), 2 + Extended(b))

(* With exactly two bytes a short header is complete, masked or not.         *)
deserialize_header(b) ==
  IF Len(b) < 2 \/ Len(b) < 2 + Extended(b) THEN Undecoded("INSUFFICIENT_DATA")
  ELSE IF Len(b) = 2 THEN Decoded("OK", HeaderIn(b, ShortLen(b), Unread), 2)
  ELSE IF ILLEGAL_PAYLOAD_LEN(b[1] % 16, LenIn(b)) THEN Undecoded("PARSE")
  ELSE IF b[2] < 128 THEN Decoded("OK", HeaderIn(b, LenIn(b), 0), 2 + Extended(b))
  ELSE IF Len(b) < 6 + Extended(b) THEN Undecoded("INSUFFICIENT_DATA")
  ELSE Decoded("OK", HeaderIn(b, LenIn(b), bytes_be_u32(b, 3 + Extended(b))),
               6 + Extended(b))
=============================================================================
