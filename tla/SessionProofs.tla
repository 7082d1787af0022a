---------------------------- MODULE SessionProofs ----------------------------
(***************************************************************************)
(* First the handshake, for every answer, every way it may arrive and      *)
(* every first size.  What its loop asks for is never more than the answer *)
(* still has, because the end is at least More(n) away from any n bytes    *)
(* that do not end with it.                                                *)
(*                                                                         *)
(* Then, for every header and every limit on the payload: what             *)
(* serialize_header writes deserialize_header reads back, and takes no     *)
(* part of it for the whole.  The runs try a few lengths; here are all of  *)
(* them, up to 2^63.  From it: what the peer makes of the frames of any    *)
(* session, and that a session is one of Websocket.                        *)
(***************************************************************************)
EXTENDS Session, WellFoundedInduction, SequenceTheorems, TLAPS

(* What follows an answer does not change where it ends.                    *)
LEMMA EndStays ==
  ASSUME NEW b \in Seq(STRING), NEW e \in Seq(STRING), EndsAt(b, Len(b))
  PROVE  /\ b \o e \in Seq(STRING)
         /\ Len(b \o e) = Len(b) + Len(e)
         /\ EndsAt(b \o e, Len(b))
<1>1. Len(b) \in Nat /\ Len(e) \in Nat /\ Len(b) >= 4
  BY DEF EndsAt
<1>2. \A i \in 1 .. Len(b) : (b \o e)[i] = b[i]
  OBVIOUS
<1>3. EndsAt(b \o e, Len(b))
  BY <1>1, <1>2 DEF EndsAt
<1> QED
  BY <1>3

(* From bytes that do not end the answer it is at least More away.          *)
LEMMA EndFarEnough ==
  ASSUME NEW n \in Nat, n >= 4, n <= answer, answer \in Nat,
         EndsAt(stream, answer), ~EndsAt(stream, n)
  PROVE  More(n) \in 1 .. 4 /\ n + More(n) <= answer
<1>1. /\ stream[answer - 3] = CR
      /\ stream[answer - 1] = CR
  BY DEF EndsAt
<1>2. answer # n
  OBVIOUS
<1>3. answer = n + 1 => stream[n - 2] = CR
  BY <1>1
<1>4. answer = n + 2 => stream[n - 1] = CR
  BY <1>1
<1>5. answer = n + 3 => stream[n] = CR
  BY <1>1
<1> QED
  BY <1>2, <1>3, <1>4, <1>5 DEF More

-----------------------------------------------------------------------------
(* Every variable keeps its type.                                            *)
LeftSizes == needed >= 4 /\ nrecv <= needed /\ Len(stream) <= MaxNeeded
NotBeyond ==
  ~short => nrecv <= answer /\ (at \notin {"check", "done"} => needed <= answer)
HandshakeInv == HandshakeTypeOK /\ EndsAt(stream, answer) /\ LeftSizes /\ BytesFit /\ NotBeyond

LEMMA HandshakeInit == Init => HandshakeInv
<1> SUFFICES ASSUME Init PROVE HandshakeInv
  OBVIOUS
<1>1. PICK u \in DOMAIN Answers :
        /\ url = url_normalize_scheme(u)
        /\ answer = Len(Answers[u])
        /\ stream \in {Answers[u], Answers[u] \o Early}
  BY DEF Init
<1> DEFINE b == Answers[u]
<1>2. /\ u \in Seq(STRING) /\ b \in Seq(STRING)
      /\ FirstNeeded <= Len(b) /\ EndsAt(b, Len(b))
      /\ Early \in Seq(STRING)
      /\ Len(b) + Len(Early) <= MaxNeeded
  BY AnswersAssumption, EarlyAssumption, SizesAssumption
<1>3. /\ answer = Len(b) /\ (stream = b \/ stream = b \o Early)
  BY <1>1
<1> HIDE DEF b
<1>4. \E v \in DOMAIN Answers : url = url_normalize_scheme(v)
  BY <1>1
<1>5. /\ Len(b) \in Nat /\ Len(Early) \in Nat /\ Len(b) >= 4
      /\ MaxNeeded \in Nat
      /\ FirstNeeded \in Nat /\ FirstNeeded >= 4
      /\ FirstSize \in Nat /\ FirstSize >= FirstNeeded
  BY <1>2, SizesAssumption DEF EndsAt
<1>6. /\ b \o Early \in Seq(STRING)
      /\ Len(b \o Early) = Len(b) + Len(Early)
      /\ EndsAt(b \o Early, Len(b))
  BY <1>2, EndStays
<1>7. /\ stream \in Seq(STRING) /\ answer \in 4 .. Len(stream)
      /\ EndsAt(stream, answer) /\ Len(stream) <= MaxNeeded
  <2>1. CASE stream = b
    BY <1>2, <1>3, <1>5, <2>1
  <2>2. CASE stream = b \o Early
    BY <1>2, <1>3, <1>5, <1>6, <2>2
  <2> QED
    BY <1>3, <2>1, <2>2
<1>8. /\ there = 0 /\ nrecv = 0 /\ needed = FirstNeeded /\ buf_size = FirstSize
      /\ short = FALSE /\ link = "up" /\ at = "idle" /\ buf = "none" /\ result = "NONE"
  BY DEF Init
<1>9. HandshakeTypeOK
  <2>1. /\ there \in 0 .. Len(stream) /\ nrecv \in 0 .. there
        /\ needed \in Nat /\ buf_size \in Nat
    BY <1>5, <1>7, <1>8
  <2>2. short \in BOOLEAN
    BY <1>8
  <2>3. /\ link \in {"up", "closed"}
        /\ at \in {"idle", "alloc", "recv", "check", "done"}
        /\ buf \in {"none", "used", "freed", "lost"}
        /\ result \in {"NONE", "OK", "CURL_INIT", "CURL", "NOMEM", "TIMEOUT", "SEND",
                       "DISCONNECT", "PARSE"}
    BY <1>8
  <2> QED
    BY <1>4, <1>7, <2>1, <2>2, <2>3 DEF HandshakeTypeOK
<1>10. LeftSizes /\ BytesFit
  BY <1>5, <1>7, <1>8 DEF LeftSizes, BytesFit
<1>11. nrecv <= answer /\ needed <= answer
  BY <1>2, <1>3, <1>5, <1>8
<1>12. NotBeyond
  BY <1>11 DEF NotBeyond
<1> QED
  BY <1>7, <1>9, <1>10, <1>12 DEF HandshakeInv

(* A read that goes on or finds the end.                                    *)
LEMMA RecvStep == HandshakeInv /\ Recv => HandshakeInv'
<1> SUFFICES ASSUME HandshakeInv, Recv PROVE HandshakeInv'
  OBVIOUS
<1>1. /\ nrecv \in Nat /\ there \in Nat /\ needed \in Nat /\ buf_size \in Nat
      /\ nrecv <= there /\ there <= Len(stream) /\ Len(stream) \in Nat
      /\ needed >= 4 /\ nrecv <= needed /\ nrecv <= buf_size
      /\ Len(stream) <= MaxNeeded /\ MaxNeeded \in Nat
      /\ answer \in Nat /\ answer >= 4 /\ answer <= Len(stream)
  BY SizesAssumption DEF HandshakeInv, HandshakeTypeOK, LeftSizes, BytesFit
<1>2. Offset \in Nat /\ nrecv <= Offset /\ Offset <= needed /\ Offset <= there
  BY <1>1 DEF Offset, Received, Least
<1>3. /\ nrecv' = Offset /\ buf_size' = Grown /\ short' = (short \/ Offset < needed)
      /\ UNCHANGED <<url, stream, answer, there, link, buf, result>>
      /\ at = "recv" /\ at' \in {"check", "recv"}
      /\ at' = "check" <=> EndsAt(stream, Offset)
  BY DEF Recv, request_vars, peer_vars
<1>4. \/ needed' = needed /\ (Offset < 4 \/ EndsAt(stream, Offset))
      \/ /\ needed' = Least(needed + More(Offset), MaxNeeded)
         /\ Offset >= 4 /\ ~EndsAt(stream, Offset)
  BY <1>2 DEF Recv
<1>5. More(Offset) \in 1 .. 4
  BY DEF More
<1> HIDE DEF Offset, More
<1>6. needed' \in Nat /\ needed' >= 4 /\ Offset <= needed'
  BY <1>1, <1>2, <1>4, <1>5 DEF Least
<1>7. Grown \in Nat /\ Offset <= Grown
  BY <1>1, <1>2 DEF Grown
<1>8. (~short)' => Offset = needed /\ needed <= answer
  <2>1. (~short)' => ~short /\ ~(Offset < needed)
    BY <1>3
  <2>2. ~short => needed <= answer
    BY <1>3 DEF HandshakeInv, NotBeyond
  <2>3. ~(Offset < needed) => Offset = needed
    BY <1>1, <1>2
  <2> QED
    BY <2>1, <2>2, <2>3
<1>9. (~short)' /\ at' = "recv" => needed' <= answer
  <2> SUFFICES ASSUME (~short)', at' = "recv" PROVE needed' <= answer
    OBVIOUS
  <2>1. Offset = needed /\ Offset <= answer /\ Offset >= 4 /\ ~EndsAt(stream, Offset)
    BY <1>1, <1>3, <1>8
  <2>2. Offset + More(Offset) <= answer
    BY <1>1, <1>2, <2>1, EndFarEnough DEF HandshakeInv
  <2> QED
    BY <1>1, <1>2, <1>4, <1>5, <2>1, <2>2 DEF Least
<1>10. NotBeyond'
  BY <1>3, <1>8, <1>9 DEF NotBeyond
<1>11. HandshakeTypeOK'
  BY <1>1, <1>2, <1>3, <1>6, <1>7 DEF HandshakeInv, HandshakeTypeOK
<1>12. EndsAt(stream, answer)' /\ LeftSizes' /\ BytesFit'
  BY <1>1, <1>2, <1>3, <1>6, <1>7 DEF HandshakeInv, LeftSizes, BytesFit, EndsAt
<1> QED
  BY <1>10, <1>11, <1>12 DEF HandshakeInv

(* Before and behind the loop.                                              *)
LEMMA OtherStep ==
  HandshakeInv /\ (Connect \/ Allocate \/ CannotGrow \/ RecvFails \/ Check) => HandshakeInv'
<1> SUFFICES ASSUME HandshakeInv, Connect \/ Allocate \/ CannotGrow \/ RecvFails \/ Check
             PROVE  HandshakeInv'
  OBVIOUS
<1> USE DEF HandshakeInv, request_vars, peer_vars, recv_vars
<1>1. UNCHANGED <<url, stream, answer, there, link, nrecv, needed, buf_size, short>>
  BY DEF Connect, Allocate, CannotGrow, RecvFails, Check
<1>2. /\ at' \in {"alloc", "recv", "done"}
      /\ at' # "done" => at \in {"idle", "alloc"}
  BY DEF Connect, ws_handshake_send, Allocate, CannotGrow, RecvFails, Check, Return
<1>3. /\ result' \in {"NONE", "OK", "CURL_INIT", "CURL", "NOMEM", "TIMEOUT", "SEND",
                      "DISCONNECT", "PARSE"}
      /\ buf' \in {"none", "used", "freed", "lost"}
  BY DEF Connect, ws_handshake_send, Allocate, CannotGrow, RecvFails, Check, Return,
         HandshakeTypeOK
<1>4. HandshakeTypeOK'
  BY <1>1, <1>2, <1>3 DEF HandshakeTypeOK
<1>5. EndsAt(stream, answer)' /\ LeftSizes' /\ BytesFit'
  BY <1>1 DEF EndsAt, LeftSizes, BytesFit
<1>6. NotBeyond'
  BY <1>1, <1>2 DEF NotBeyond
<1> QED
  BY <1>4, <1>5, <1>6

(* The peer only adds to what has come.                                     *)
LEMMA PeerStep == HandshakeInv /\ (HandshakePeer \/ UNCHANGED hvars) => HandshakeInv'
<1> SUFFICES ASSUME HandshakeInv, HandshakePeer \/ UNCHANGED hvars PROVE HandshakeInv'
  OBVIOUS
<1> USE DEF HandshakeInv, hvars, request_vars, peer_vars, recv_vars
<1>1. UNCHANGED <<url, stream, answer, at, nrecv, needed, buf_size, buf, short, result>>
  BY DEF HandshakePeer, Arrives, Drops
<1>2. /\ there' \in there .. Len(stream) /\ link' \in {"up", "closed"}
  BY DEF HandshakePeer, Arrives, Drops, HandshakeTypeOK
<1>3. HandshakeTypeOK'
  BY <1>1, <1>2 DEF HandshakeTypeOK
<1>4. EndsAt(stream, answer)' /\ LeftSizes' /\ BytesFit' /\ NotBeyond'
  BY <1>1 DEF EndsAt, LeftSizes, BytesFit, NotBeyond
<1> QED
  BY <1>3, <1>4

LEMMA HandshakeSafe == HandshakeSpec => []HandshakeInv
<1>1. HandshakeInv /\ [HandshakeNext]_hvars => HandshakeInv'
  BY RecvStep, OtherStep, PeerStep DEF HandshakeNext, revoltc_ws_connect
<1> QED
  BY <1>1, HandshakeInit, PTL DEF HandshakeSpec

(* Types, and no more is read than has come.                                *)
THEOREM HandshakeTypesThm == HandshakeSpec => []HandshakeTypeOK
<1>1. HandshakeInv => HandshakeTypeOK
  BY DEF HandshakeInv
<1> QED
  BY <1>1, HandshakeSafe, PTL

(* Everything read goes into the buffer (websocket.c 234-241).              *)
THEOREM BytesFitThm == HandshakeSpec => []BytesFit
<1>1. HandshakeInv => BytesFit
  BY DEF HandshakeInv
<1> QED
  BY <1>1, HandshakeSafe, PTL

(* As long as no read was short nothing behind the answer is read           *)
(* (websocket.c 248-261), whatever the answer says and however it is cut.   *)
THEOREM NothingSwallowedThm == HandshakeSpec => []NothingSwallowed
<1>1. HandshakeInv => NothingSwallowed
  <2> SUFFICES ASSUME HandshakeInv, nrecv > answer, ~short PROVE FALSE
    BY DEF NothingSwallowed, HandshakeInv, HandshakeTypeOK
  <2> QED
    BY DEF HandshakeInv, HandshakeTypeOK, NotBeyond
<1> QED
  BY <1>1, HandshakeSafe, PTL
-----------------------------------------------------------------------------
(* Nothing the peer sends early looks like a second end of its answer.       *)
OneEnd ==
  \A u \in DOMAIN Answers :
    \A n \in Len(Answers[u]) + 1 .. Len(Answers[u]) + Len(Early) :
      ~EndsAt(Answers[u] \o Early, n)

UpgradeInv ==
  /\ \A n \in 4 .. Len(stream) : EndsAt(stream, n) => n = answer
  /\ at = "check" => EndsAt(stream, nrecv)
  /\ at # "done" => result # "OK"
  /\ UpgradedBehindAnswer

LEMMA UpgradeInit ==
  ASSUME OneEnd
  PROVE  Init => UpgradeInv
<1> SUFFICES ASSUME Init PROVE UpgradeInv
  OBVIOUS
<1>1. PICK u \in DOMAIN Answers :
        answer = Len(Answers[u]) /\ stream \in {Answers[u], Answers[u] \o Early}
  BY DEF Init
<1> DEFINE b == Answers[u]
<1>2. /\ b \in Seq(STRING) /\ Early \in Seq(STRING) /\ EndsAt(b, Len(b))
      /\ \A n \in 4 .. Len(b) - 1 : ~EndsAt(b, n)
      /\ \A n \in Len(b) + 1 .. Len(b) + Len(Early) : ~EndsAt(b \o Early, n)
  BY AnswersAssumption, EarlyAssumption DEF OneEnd
<1>3. answer = Len(b) /\ (stream = b \/ stream = b \o Early)
  BY <1>1
<1> HIDE DEF b
<1>4. Len(b) \in Nat /\ Len(b) >= 4 /\ Len(Early) \in Nat
  BY <1>2 DEF EndsAt
<1>5. ASSUME NEW n \in 4 .. Len(stream), EndsAt(stream, n), n # answer
      PROVE  FALSE
  <2>1. CASE stream = b
    BY <1>2, <1>3, <1>4, <1>5, <2>1
  <2>2. CASE stream = b \o Early
    <3>1. Len(stream) = Len(b) + Len(Early)
      BY <1>2, <2>2, EndStays
    <3>2. CASE n < Len(b)
      <4>1. \A i \in 1 .. Len(b) : (b \o Early)[i] = b[i]
        BY <1>2
      <4>2. EndsAt(b, n)
        BY <1>4, <1>5, <2>2, <3>2, <4>1 DEF EndsAt
      <4> QED
        BY <1>2, <1>4, <3>2, <4>2
    <3>3. CASE n > Len(b)
      BY <1>2, <1>4, <1>5, <2>2, <3>1, <3>3
    <3> QED
      BY <1>3, <1>4, <1>5, <3>2, <3>3
  <2> QED
    BY <1>3, <2>1, <2>2
<1>6. at = "idle" /\ result = "NONE"
  BY DEF Init
<1> QED
  BY <1>5, <1>6 DEF UpgradeInv, UpgradedBehindAnswer

(* A response with the status line and the three fields has them behind it. *)
LEMMA ValidFields ==
  ASSUME NEW s \in Seq(STRING), NEW n \in 4 .. Len(s), http_header_valid(SubSeq(s, 1, n))
  PROVE  /\ s[1] = "status"
         /\ \A field \in {"upgrade", "connection", "accept"} :
              \E i \in 2 .. n : s[i] = field
<1> DEFINE b == SubSeq(s, 1, n)
<1>1. Len(b) = n /\ \A i \in 1 .. n : b[i] = s[i]
  OBVIOUS
<1>2. /\ b[1] = "status"
      /\ {"upgrade", "connection", "accept"} \subseteq {b[i] : i \in LineStarts(b) \ {1}}
  BY DEF http_header_valid
<1>3. \A i \in LineStarts(b) \ {1} : i \in 2 .. Len(b)
  <2> HIDE DEF b
  <2> QED
    BY <1>1 DEF LineStarts
<1> HIDE DEF b
<1>4. 1 \in 1 .. n /\ \A i \in 2 .. n : i \in 1 .. n
  OBVIOUS
<1>5. ASSUME NEW field \in {"upgrade", "connection", "accept"}
      PROVE  \E i \in 2 .. n : s[i] = field
  <2>1. PICK i \in LineStarts(b) \ {1} : b[i] = field
    BY <1>2
  <2>2. i \in 2 .. n
    BY <1>1, <1>3
  <2> QED
    BY <1>1, <1>4, <2>1, <2>2
<1> QED
  BY <1>1, <1>2, <1>4, <1>5

LEMMA UpgradeStep ==
  HandshakeInv /\ UpgradeInv /\ [HandshakeNext]_hvars => UpgradeInv'
<1> SUFFICES ASSUME HandshakeInv, UpgradeInv, [HandshakeNext]_hvars PROVE UpgradeInv'
  OBVIOUS
<1>1. UNCHANGED <<stream, answer>>
  BY DEF HandshakeNext, revoltc_ws_connect, HandshakePeer, Connect, Allocate, CannotGrow,
         RecvFails, Recv, Check, Arrives, Drops, hvars, request_vars, peer_vars
<1>2. (\A n \in 4 .. Len(stream) : EndsAt(stream, n) => n = answer)'
  BY <1>1 DEF UpgradeInv, EndsAt
<1>3. CASE Recv
  <2>1. /\ nrecv' = Offset /\ result' = result /\ at = "recv" /\ at' \in {"check", "recv"}
        /\ at' = "check" => EndsAt(stream, Offset)
    BY <1>3 DEF Recv
  <2> QED
    BY <1>1, <1>2, <2>1 DEF UpgradeInv, UpgradedBehindAnswer, EndsAt
<1>4. CASE Check
  <2>1. at = "check" /\ at' = "done" /\ nrecv' = nrecv
    BY <1>4 DEF Check, Return
  <2>2. result' = "OK" => http_header_valid(SubSeq(stream, 1, nrecv))
    BY <1>4 DEF Check, Return
  <2>3. /\ stream \in Seq(STRING) /\ nrecv \in 4 .. Len(stream)
        /\ EndsAt(stream, nrecv) /\ nrecv = answer
    <3>1. /\ stream \in Seq(STRING) /\ Len(stream) \in Nat
          /\ nrecv \in Nat /\ there \in Nat /\ nrecv <= there /\ there <= Len(stream)
      BY DEF HandshakeInv, HandshakeTypeOK
    <3>2. EndsAt(stream, nrecv) /\ nrecv >= 4
      BY <2>1 DEF UpgradeInv, EndsAt
    <3> QED
      BY <3>1, <3>2 DEF UpgradeInv
  <2>4. UpgradedBehindAnswer'
    <3>1. result' = "OK" =>
            /\ stream[1] = "status"
            /\ \A field \in {"upgrade", "connection", "accept"} :
                 \E i \in 2 .. nrecv : stream[i] = field
      BY <2>2, <2>3, ValidFields
    <3> QED
      BY <1>1, <2>1, <2>3, <3>1 DEF UpgradedBehindAnswer
  <2> QED
    BY <1>2, <2>1, <2>4 DEF UpgradeInv
<1>5. CASE Connect \/ Allocate \/ CannotGrow \/ RecvFails
  <2>1. /\ nrecv' = nrecv /\ at \in {"idle", "alloc", "recv"}
        /\ at' \in {"alloc", "recv", "done"} /\ result' # "OK"
    BY <1>5 DEF UpgradeInv, Connect, ws_handshake_send, Allocate, CannotGrow, RecvFails, Return,
                recv_vars
  <2> QED
    BY <1>2, <2>1 DEF UpgradeInv, UpgradedBehindAnswer
<1>6. CASE HandshakePeer \/ UNCHANGED hvars
  <2>1. UNCHANGED <<at, result, nrecv>>
    BY <1>6 DEF HandshakePeer, Arrives, Drops, hvars, recv_vars
  <2> QED
    BY <1>1, <1>2, <2>1 DEF UpgradeInv, UpgradedBehindAnswer, EndsAt
<1> QED
  BY <1>3, <1>4, <1>5, <1>6 DEF HandshakeNext, revoltc_ws_connect

(* A connection is upgraded behind a complete answer with its status line    *)
(* and all three fields, and nowhere else (263-266, 344-349), for every      *)
(* answer and every way it may be cut.                                       *)
THEOREM UpgradedBehindAnswerThm ==
  ASSUME OneEnd
  PROVE  HandshakeSpec => []UpgradedBehindAnswer
<1>1. Init => UpgradeInv
  BY UpgradeInit
<1>2. UpgradeInv => UpgradedBehindAnswer
  BY DEF UpgradeInv
<1> QED
  BY <1>1, <1>2, UpgradeStep, HandshakeSafe, PTL DEF HandshakeSpec
-----------------------------------------------------------------------------
(***************************************************************************)
(* The request names the URL's host and path, whatever the URL.  What the  *)
(* helpers look for is found by First, the least index from one on.        *)
(***************************************************************************)
LEMMA LeastIndex ==
  ASSUME NEW js \in SUBSET Nat, js # {}
  PROVE  \E j \in js : \A k \in js : j <= k
<1> DEFINE R == {p \in Nat \X Nat : p[1] < p[2]}
<1>1. IsWellFoundedOn(R, Nat)
  BY NatLessThanWellFounded DEF OpToRel
<1> HIDE DEF R
<1>2. PICK j \in js : \A k \in js : ~ (<<k, j>> \in R)
  BY <1>1, WFMin
<1>3. ASSUME NEW k \in js
      PROVE  j <= k
  <2>1. j \in Nat /\ k \in Nat
    OBVIOUS
  <2>2. k < j => <<k, j>> \in R
    BY <2>1 DEF R
  <2> QED
    BY <1>2, <2>1, <2>2
<1> QED
  BY <1>3

IsFirst(u, i, parts, n) ==
  /\ n \in i .. Len(u) + 1
  /\ \A j \in i .. n - 1 : u[j] \notin parts
  /\ n <= Len(u) => u[n] \in parts

LEMMA FirstFacts ==
  ASSUME NEW S, NEW u \in Seq(S), NEW i \in Nat \ {0}, i <= Len(u) + 1, NEW parts
  PROVE  IsFirst(u, i, parts, First(u, i, parts))
<1> DEFINE js == {j \in i .. Len(u) : u[j] \in parts}
<1>0. Len(u) \in Nat
  OBVIOUS
<1>1. js \in SUBSET Nat
  BY <1>0
<1>2. CASE js = {}
  <2>1. First(u, i, parts) = Len(u) + 1
    BY <1>2 DEF First
  <2> QED
    BY <1>0, <1>2, <2>1 DEF IsFirst
<1>3. CASE js # {}
  <2> DEFINE n == CHOOSE j \in js : \A k \in js : j <= k
  <2>1. n \in js /\ \A k \in js : n <= k
    <3>1. \E j \in js : \A k \in js : j <= k
      <4> HIDE DEF js
      <4> QED
        BY <1>1, <1>3, LeastIndex
    <3> HIDE DEF js
    <3> QED
      BY <3>1
  <2>2. First(u, i, parts) = n
    BY <1>3 DEF First
  <2> HIDE DEF n
  <2> QED
    BY <1>0, <2>1, <2>2 DEF IsFirst
<1> QED
  BY <1>2, <1>3

LEMMA FirstIs ==
  ASSUME NEW S, NEW u \in Seq(S), NEW i \in Nat \ {0}, NEW parts,
         NEW m, IsFirst(u, i, parts, m), NEW n, IsFirst(u, i, parts, n)
  PROVE  m = n
<1>1. Len(u) \in Nat
  OBVIOUS
<1> QED
  BY <1>1 DEF IsFirst

LEMMA PartFacts ==
  ASSUME NEW S, NEW u \in Seq(S), NEW a \in Nat \ {0}, NEW b \in Nat,
         a <= b + 1, b <= Len(u)
  PROVE  /\ SubSeq(u, a, b) \in Seq(S) /\ Len(SubSeq(u, a, b)) = b - a + 1
         /\ DOMAIN SubSeq(u, a, b) = 1 .. (b - a + 1)
         /\ \A n \in 1 .. (b - a + 1) : SubSeq(u, a, b)[n] = u[a + n - 1]
OBVIOUS

LEMMA NoPart ==
  ASSUME NEW S, NEW u \in Seq(S), NEW a \in Nat \ {0}, NEW b \in Nat,
         a <= b + 1, b <= Len(u)
  PROVE  a = b + 1 <=> SubSeq(u, a, b) = <<>>
<1>1. SubSeq(u, a, b) \in Seq(S) /\ Len(SubSeq(u, a, b)) = b - a + 1
  BY PartFacts
<1> QED
  BY <1>1

PartsOf(s) == {s[n] : n \in DOMAIN s}
NoneOf(u, a, b, T) == \A j \in a .. b : u[j] \notin T

LEMMA PartsInside ==
  ASSUME NEW S, NEW u \in Seq(S), NEW a \in Nat \ {0}, NEW b \in Nat,
         a <= b + 1, b <= Len(u), NEW T
  PROVE  NoneOf(u, a, b, T) <=> PartsOf(SubSeq(u, a, b)) \cap T = {}
<1> DEFINE s == SubSeq(u, a, b)
<1>1. DOMAIN s = 1 .. (b - a + 1) /\ \A n \in 1 .. (b - a + 1) : s[n] = u[a + n - 1]
  BY PartFacts
<1> HIDE DEF s
<1>2. ASSUME \A j \in a .. b : u[j] \notin T, NEW n \in DOMAIN s
      PROVE  s[n] \notin T
  <2>1. a + n - 1 \in a .. b
    BY <1>1
  <2> QED
    BY <1>1, <1>2, <2>1
<1>3. ASSUME \A n \in DOMAIN s : s[n] \notin T, NEW j \in a .. b
      PROVE  u[j] \notin T
  <2>1. j - a + 1 \in 1 .. (b - a + 1) /\ a + (j - a + 1) - 1 = j
    OBVIOUS
  <2> QED
    BY <1>1, <1>3, <2>1
<1> QED
  BY <1>2, <1>3 DEF PartsOf, NoneOf, s

LEMMA JoinedUrl ==
  ASSUME NEW S, NEW l \in Seq(S), NEW r \in Seq(S)
  PROVE  /\ l \o r \in Seq(S) /\ Len(l \o r) = Len(l) + Len(r)
         /\ \A j \in 1 .. Len(l) : (l \o r)[j] = l[j]
         /\ \A j \in 1 .. Len(r) : (l \o r)[Len(l) + j] = r[j]
OBVIOUS

(* The schemes of http and ws, with "://" behind them, and no other. *)
Normal(S, u) ==
  /\ u \in Seq(S) /\ Len(u) >= 2
  /\ u[1] \in {"http", "https"} /\ u[2] = "://"

LEMMA SchemeNormal ==
  ASSUME NEW u \in Seq(STRING)
  PROVE  Normal(STRING \cup {"http", "https", "://"}, url_normalize_scheme(u))
<1> DEFINE S == STRING \cup {"http", "https", "://"}
           w == url_normalize_scheme(u)
<1> SUFFICES Normal(S, w)
  OBVIOUS
<1>0. u \in Seq(S) /\ Len(u) \in Nat
  OBVIOUS
<1> HIDE DEF S
<1>s. {"http", "https", "://"} \subseteq S
  BY DEF S
<1>1. CASE w = u /\ Len(u) >= 2 /\ u[2] = "://" /\ u[1] \in {"http", "https"}
  BY <1>0, <1>1 DEF Normal
<1>2. ASSUME NEW x \in {"http", "https"},
             w = <<x>> \o SubSeq(u, 2, Len(u)), Len(u) >= 2, u[2] = "://"
      PROVE  Normal(S, w)
  <2> DEFINE b == SubSeq(u, 2, Len(u))
  <2>1. b \in Seq(S) /\ Len(b) = Len(u) - 1 /\ b[1] = u[2]
    BY <1>0, <1>2
  <2>2. <<x>> \in Seq(S) /\ Len(<<x>>) = 1 /\ <<x>>[1] = x
    BY <1>s
  <2>3. w = <<x>> \o b
    BY <1>2
  <2> HIDE DEF b, w
  <2>4. /\ w \in Seq(S) /\ Len(w) = 1 + Len(b)
        /\ w[1] = <<x>>[1] /\ w[2] = b[1]
    BY <1>0, <1>2, <2>1, <2>2, <2>3
  <2> QED
    BY <1>0, <1>2, <2>1, <2>2, <2>4 DEF Normal
<1>3. CASE w = <<"https">> \o u /\ Len(u) >= 1 /\ u[1] = "://"
  <2>1. <<"https">> \in Seq(S) /\ Len(<<"https">>) = 1 /\ <<"https">>[1] = "https"
    BY <1>s
  <2> HIDE DEF w
  <2>2. w \in Seq(S) /\ Len(w) = 1 + Len(u) /\ w[1] = <<"https">>[1] /\ w[2] = u[1]
    BY <1>0, <1>3, <2>1
  <2> QED
    BY <1>0, <1>3, <2>1, <2>2 DEF Normal
<1>4. CASE w = <<"https", "://">> \o u
  <2> DEFINE b == <<"https", "://">>
  <2>1. b \in Seq(S) /\ Len(b) = 2 /\ b[1] = "https" /\ b[2] = "://"
    BY <1>s
  <2>2. w = b \o u
    BY <1>4
  <2> HIDE DEF w, b
  <2>3. w \in Seq(S) /\ Len(w) = 2 + Len(u) /\ w[1] = b[1] /\ w[2] = b[2]
    <3>1. /\ b \o u \in Seq(S) /\ Len(b \o u) = Len(b) + Len(u)
          /\ \A j \in 1 .. Len(b) : (b \o u)[j] = b[j]
      BY <1>0, <2>1, JoinedUrl
    <3>2. 1 \in 1 .. Len(b) /\ 2 \in 1 .. Len(b)
      BY <2>1
    <3> QED
      BY <2>1, <2>2, <3>1, <3>2
  <2> QED
    BY <1>0, <2>1, <2>3 DEF Normal
<1>5. \/ w = u /\ Len(u) >= 2 /\ u[2] = "://" /\ u[1] \in {"http", "https"}
      \/ \E x \in {"http", "https"} :
           w = <<x>> \o SubSeq(u, 2, Len(u)) /\ Len(u) >= 2 /\ u[2] = "://"
      \/ w = <<"https">> \o u /\ Len(u) >= 1 /\ u[1] = "://"
      \/ w = <<"https", "://">> \o u
  BY DEF url_normalize_scheme
<1> QED
  BY <1>1, <1>2, <1>3, <1>4, <1>5

LEMMA SchemeEnds ==
  ASSUME NEW S, NEW u, Normal(S, u)
  PROVE  AfterScheme(u) = 3
<1>1. IsFirst(u, 1, {"://"}, 2)
  <2>1. Len(u) \in Nat /\ Len(u) >= 2 /\ u[1] # "://" /\ u[2] = "://"
    BY DEF Normal
  <2>2. \A j \in 1 .. 2 - 1 : j = 1
    OBVIOUS
  <2> QED
    BY <2>1, <2>2 DEF IsFirst
<1>2. IsFirst(u, 1, {"://"}, First(u, 1, {"://"}))
  BY FirstFacts DEF Normal
<1>3. First(u, 1, {"://"}) = 2
  BY <1>1, <1>2, FirstIs DEF Normal
<1> QED
  BY <1>3 DEF AfterScheme

(* The URL cut into host, port, rest and fragment behind i, j and k. *)
Cut(u, host, path, i, j, k) ==
  LET named == SubSeq(u, 3, i)
      port == SubSeq(u, i + 1, j)
      rest == SubSeq(u, j + 1, k)
      fragment == SubSeq(u, k + 1, Len(u))
  IN /\ i <= j /\ j <= k
     /\ PartsOf(named) \cap {":", "/", "?", "#"} = {}
     /\ port # <<>> => port[1] = ":"
     /\ PartsOf(port) \cap {"/", "?", "#"} = {}
     /\ rest # <<>> => rest[1] \in {"/", "?"}
     /\ "#" \notin PartsOf(rest)
     /\ fragment # <<>> => fragment[1] = "#"
     /\ host = named
     /\ \/ rest = (IF rest # <<>> /\ rest[1] = "/" THEN <<"/">> ELSE <<>>) \o path
        \/ rest = <<>> /\ PartsOf(fragment) \cap {"/", "?"} # {}

LEMMA FirstPart ==
  ASSUME NEW S, NEW u \in Seq(S), NEW a \in Nat \ {0}, NEW b \in Nat,
         a <= b, b <= Len(u)
  PROVE  SubSeq(u, a, b) = <<u[a]>> \o SubSeq(u, a + 1, b)
<1> DEFINE s == SubSeq(u, a, b)
           t == SubSeq(u, a + 1, b)
           c == <<u[a]>>
<1>0. Len(u) \in Nat /\ u[a] \in S
  OBVIOUS
<1>1. /\ s \in Seq(S) /\ Len(s) = b - a + 1
      /\ \A n \in 1 .. (b - a + 1) : s[n] = u[a + n - 1]
  BY PartFacts
<1>2. /\ t \in Seq(S) /\ Len(t) = b - a
      /\ \A n \in 1 .. (b - a) : t[n] = u[a + n]
  <2>1. a + 1 \in Nat \ {0} /\ a + 1 <= b + 1 /\ b - (a + 1) + 1 = b - a
    OBVIOUS
  <2>2. /\ t \in Seq(S) /\ Len(t) = b - (a + 1) + 1
        /\ \A n \in 1 .. (b - (a + 1) + 1) : t[n] = u[(a + 1) + n - 1]
    BY <2>1, PartFacts
  <2>3. \A n \in 1 .. (b - a) : (a + 1) + n - 1 = a + n
    OBVIOUS
  <2> QED
    BY <2>1, <2>2, <2>3
<1>3. c \in Seq(S) /\ Len(c) = 1 /\ c[1] = u[a]
  BY <1>0
<1> HIDE DEF s, t, c
<1>4. /\ c \o t \in Seq(S) /\ Len(c \o t) = Len(c) + Len(t)
      /\ \A j \in 1 .. Len(c) : (c \o t)[j] = c[j]
      /\ \A j \in 1 .. Len(t) : (c \o t)[Len(c) + j] = t[j]
  <2>1. c \in Seq(S) /\ t \in Seq(S)
    BY <1>2, <1>3
  <2> QED
    BY <2>1, JoinedUrl
<1>5. ASSUME NEW n \in 1 .. (b - a + 1)
      PROVE  s[n] = (c \o t)[n]
  <2>1. CASE n = 1
    BY <1>1, <1>3, <1>4, <2>1, a + 1 - 1 = a
  <2>2. CASE n # 1
    <3>1. n - 1 \in 1 .. (b - a) /\ 1 + (n - 1) = n /\ a + (n - 1) = a + n - 1
      BY <2>2
    <3>2. s[n] = u[a + (n - 1)] /\ t[n - 1] = u[a + (n - 1)]
      BY <1>1, <1>2, <3>1
    <3>3. (c \o t)[Len(c) + (n - 1)] = t[n - 1] /\ Len(c) + (n - 1) = n
      BY <1>2, <1>3, <1>4, <3>1
    <3> QED
      BY <3>2, <3>3
  <2> QED
    BY <2>1, <2>2
<1>6. Len(c \o t) = b - a + 1
  BY <1>2, <1>3, <1>4
<1>7. s = c \o t
  <2>1. \A n \in 1 .. Len(s) : s[n] = (c \o t)[n]
    BY <1>1, <1>5
  <2> QED
    BY <1>1, <1>4, <1>6, <2>1, SeqEqual
<1> QED
  BY <1>7 DEF s, t, c

LEMMA NoneBehind ==
  ASSUME NEW S, NEW u \in Seq(S), NEW parts
  PROVE  SubSeq(u, Len(u) + 1, First(u, Len(u) + 1, parts) - 1) = <<>>
<1>1. Len(u) \in Nat
  OBVIOUS
<1>2. IsFirst(u, Len(u) + 1, parts, First(u, Len(u) + 1, parts))
  BY <1>1, FirstFacts
<1>3. First(u, Len(u) + 1, parts) = Len(u) + 1
  BY <1>1, <1>2 DEF IsFirst
<1>4. SubSeq(u, Len(u) + 1, Len(u)) = <<>>
  BY <1>1, NoPart
<1> QED
  BY <1>1, <1>3, <1>4

LEMMA UrlParts ==
  ASSUME NEW S, NEW u, Normal(S, u), url_get_host(u) # <<>>
  PROVE  \E i, j, k \in 2 .. Len(u) : Cut(u, url_get_host(u), url_get_path(u), i, j, k)
<1> DEFINE l == Len(u)
           h == First(u, 3, {":", "/", "?", "#"})
           q == First(u, 3, {"/", "?"})
           g == First(u, h, {"/", "?", "#"})
           f == First(u, g, {"#"})
           host == SubSeq(u, 3, h - 1)
           port == SubSeq(u, h, g - 1)
           rest == SubSeq(u, g, f - 1)
           fragment == SubSeq(u, f, l)
           path == url_get_path(u)
<1>1. u \in Seq(S) /\ l \in Nat /\ l >= 2
  BY DEF Normal
<1>2. AfterScheme(u) = 3
  BY SchemeEnds
<1>3. url_get_host(u) = host
  BY <1>2 DEF url_get_host
<1>4. /\ path = SubSeq(u, q, First(u, q, {"#"}) - 1) \/ (q <= l /\ u[q] = "/")
      /\ q <= l /\ u[q] = "/" => path = SubSeq(u, q + 1, First(u, q + 1, {"#"}) - 1)
  BY <1>2 DEF url_get_path
<1> HIDE DEF l, h, q, g, f, path
<1>5. IsFirst(u, 3, {":", "/", "?", "#"}, h) /\ IsFirst(u, 3, {"/", "?"}, q)
  BY <1>1, FirstFacts DEF h, q, l
<1>6. h \in 3 .. l + 1
  BY <1>5 DEF IsFirst, l
<1>7. h \in Nat \ {0} /\ h <= l + 1
  BY <1>1, <1>6
<1>8. IsFirst(u, h, {"/", "?", "#"}, g)
  BY <1>1, <1>7, FirstFacts DEF g, l
<1>9. g \in h .. l + 1
  BY <1>8 DEF IsFirst, l
<1>10. g \in Nat \ {0} /\ g <= l + 1 /\ h <= g
  BY <1>1, <1>7, <1>9
<1>11. IsFirst(u, g, {"#"}, f)
  BY <1>1, <1>10, FirstFacts DEF f, l
<1>12. f \in g .. l + 1
  BY <1>11 DEF IsFirst, l
<1>13. h >= 4
  <2>1. h # 3
    <3>1. 3 = (h - 1) + 1 => host = <<>>
      BY <1>1, <1>6, NoPart DEF l
    <3> QED
      BY <1>1, <1>3, <1>6, <3>1
  <2> QED
    BY <1>1, <1>6, <2>1
<1>14. /\ h - 1 \in 2 .. l /\ g - 1 \in 2 .. l /\ f - 1 \in 2 .. l
       /\ (h - 1) + 1 = h /\ (g - 1) + 1 = g /\ (f - 1) + 1 = f
       /\ h - 1 <= g - 1 /\ g - 1 <= f - 1 /\ f \in Nat \ {0}
       /\ h - 1 \in Nat /\ g - 1 \in Nat /\ f - 1 \in Nat
  BY <1>1, <1>6, <1>9, <1>12, <1>13
<1>15. PartsOf(host) \cap {":", "/", "?", "#"} = {}
  <2>1. NoneOf(u, 3, h - 1, {":", "/", "?", "#"})
    BY <1>5 DEF IsFirst, NoneOf
  <2> QED
    BY <1>1, <1>13, <1>14, <2>1, PartsInside DEF l
<1>16. PartsOf(port) \cap {"/", "?", "#"} = {}
  <2>1. NoneOf(u, h, g - 1, {"/", "?", "#"})
    BY <1>8 DEF IsFirst, NoneOf
  <2> QED
    BY <1>1, <1>7, <1>14, <2>1, PartsInside DEF l
<1>17. "#" \notin PartsOf(rest)
  <2>1. NoneOf(u, g, f - 1, {"#"})
    BY <1>11 DEF IsFirst, NoneOf
  <2>2. PartsOf(rest) \cap {"#"} = {}
    BY <1>1, <1>10, <1>14, <2>1, PartsInside DEF l
  <2> QED
    BY <2>2
<1>18. port # <<>> => port[1] = ":"
  <2> SUFFICES ASSUME port # <<>> PROVE port[1] = ":"
    OBVIOUS
  <2>1. h # g
    BY <1>1, <1>7, <1>14, NoPart DEF l
  <2>2. h \in h .. g - 1 /\ h <= l /\ 1 \in 1 .. ((g - 1) - h + 1) /\ h + 1 - 1 = h
    BY <1>1, <1>7, <1>10, <2>1
  <2>3. u[h] \in {":", "/", "?", "#"} /\ u[h] \notin {"/", "?", "#"}
    BY <1>5, <1>8, <2>2 DEF IsFirst, l
  <2>4. \A n \in 1 .. ((g - 1) - h + 1) : port[n] = u[h + n - 1]
    BY <1>1, <1>7, <1>14, PartFacts DEF l
  <2> QED
    BY <2>2, <2>3, <2>4
<1>19. rest # <<>> => g < f /\ rest[1] = u[g] /\ u[g] \in {"/", "?"}
  <2> SUFFICES ASSUME rest # <<>> PROVE g < f /\ rest[1] = u[g] /\ u[g] \in {"/", "?"}
    OBVIOUS
  <2>1. g # f
    BY <1>1, <1>10, <1>14, NoPart DEF l
  <2>2. g < f /\ g \in g .. f - 1 /\ g <= l /\ 1 \in 1 .. ((f - 1) - g + 1) /\ g + 1 - 1 = g
    BY <1>1, <1>10, <1>12, <2>1
  <2>3. u[g] \in {"/", "?", "#"} /\ u[g] \notin {"#"}
    BY <1>8, <1>11, <2>2 DEF IsFirst, l
  <2>4. \A n \in 1 .. ((f - 1) - g + 1) : rest[n] = u[g + n - 1]
    BY <1>1, <1>10, <1>14, PartFacts DEF l
  <2> QED
    BY <2>2, <2>3, <2>4
<1>20. fragment # <<>> => fragment[1] = "#"
  <2> SUFFICES ASSUME fragment # <<>> PROVE fragment[1] = "#"
    OBVIOUS
  <2>1. f # l + 1
    BY <1>1, <1>12, <1>14, NoPart DEF l
  <2>2. f <= l /\ 1 \in 1 .. (l - f + 1) /\ f + 1 - 1 = f
    BY <1>1, <1>12, <1>14, <2>1
  <2>3. u[f] \in {"#"}
    BY <1>11, <2>2 DEF IsFirst, l
  <2>4. \A n \in 1 .. (l - f + 1) : fragment[n] = u[f + n - 1]
    BY <1>1, <1>14, <2>2, PartFacts DEF l
  <2> QED
    BY <2>2, <2>3, <2>4
<1>21. \A m \in 3 .. g - 1 : u[m] \notin {"/", "?"}
  <2> SUFFICES ASSUME NEW m \in 3 .. g - 1 PROVE u[m] \notin {"/", "?"}
    OBVIOUS
  <2>1. m \in 3 .. h - 1 \/ m \in h .. g - 1
    BY <1>7, <1>10
  <2> QED
    BY <1>5, <1>8, <2>1 DEF IsFirst
<1>22. \/ rest = (IF rest # <<>> /\ rest[1] = "/" THEN <<"/">> ELSE <<>>) \o path
       \/ rest = <<>> /\ PartsOf(fragment) \cap {"/", "?"} # {}
  <2>1. CASE g <= l /\ u[g] \in {"/", "?"}
    <3>1. IsFirst(u, 3, {"/", "?"}, g)
      BY <1>1, <1>6, <1>9, <1>21, <2>1 DEF IsFirst, l
    <3>2. q = g
      BY <1>1, <1>5, <3>1, FirstIs
    <3>3. f # g /\ f > g
      BY <1>1, <1>11, <1>12, <1>10, <2>1 DEF IsFirst, l
    <3>4. rest # <<>> /\ rest[1] = u[g]
      <4>1. rest # <<>>
        BY <1>1, <1>10, <1>14, <3>3, NoPart DEF l
      <4> QED
        BY <1>19, <4>1
    <3>5. CASE u[g] = "/"
      <4>1. IsFirst(u, g + 1, {"#"}, f)
        BY <1>1, <1>10, <1>11, <1>12, <3>3 DEF IsFirst, l
      <4>2. IsFirst(u, g + 1, {"#"}, First(u, g + 1, {"#"}))
        BY <1>1, <1>10, <2>1, FirstFacts DEF l
      <4>3. First(u, g + 1, {"#"}) = f
        BY <1>1, <1>10, <4>1, <4>2, FirstIs
      <4>4. path = SubSeq(u, g + 1, f - 1)
        BY <1>4, <2>1, <3>2, <3>5, <4>3
      <4>5. rest = <<u[g]>> \o SubSeq(u, g + 1, f - 1)
        BY <1>1, <1>10, <1>12, <1>14, <3>3, FirstPart DEF l
      <4> HIDE DEF rest
      <4> QED
        BY <3>4, <3>5, <4>4, <4>5
    <3>6. CASE u[g] # "/"
      <4>1. path = rest
        BY <1>4, <3>2, <3>6 DEF f
      <4>2. rest \in Seq(S)
        BY <1>1, <1>10, <1>14, PartFacts DEF l
      <4> HIDE DEF rest
      <4>3. <<>> \o rest = rest
        BY <4>2
      <4> QED
        BY <3>4, <3>6, <4>1, <4>3
    <3> QED
      BY <3>5, <3>6
  <2>2. CASE ~(g <= l /\ u[g] \in {"/", "?"})
    <3>1. rest = <<>>
      <4>1. CASE g <= l
        <5>1. u[g] \in {"#"}
          BY <1>8, <2>2, <4>1 DEF IsFirst, l
        <5>2. f = g
          BY <1>1, <1>10, <1>11, <1>12, <5>1 DEF IsFirst
        <5> QED
          BY <1>1, <1>10, <1>14, <5>2, NoPart DEF l
      <4>2. CASE ~(g <= l)
        <5>1. f = g
          BY <1>1, <1>10, <1>12, <4>2
        <5> QED
          BY <1>1, <1>10, <1>14, <5>1, NoPart DEF l
      <4> QED
        BY <4>1, <4>2
    <3>2. f = g
      <4>1. (f - 1) + 1 = g
        BY <1>1, <1>10, <1>14, <3>1, NoPart DEF l
      <4> QED
        BY <1>14, <4>1
    <3>3. q \in 3 .. l + 1 /\ (q <= l => u[q] \in {"/", "?"})
      BY <1>5 DEF IsFirst, l
    <3>4. CASE q <= l
      <4>1. q \in f .. l
        BY <1>1, <1>10, <1>14, <1>21, <3>2, <3>3, <3>4
      <4>2. ~NoneOf(u, f, l, {"/", "?"})
        BY <3>3, <3>4, <4>1 DEF NoneOf
      <4>3. PartsOf(fragment) \cap {"/", "?"} # {}
        <5>1. f \in Nat \ {0} /\ f <= l + 1 /\ l <= Len(u)
          BY <1>1, <1>12, <1>14 DEF l
        <5> QED
          BY <1>1, <4>2, <5>1, PartsInside
      <4> QED
        BY <3>1, <4>3
    <3>5. CASE ~(q <= l)
      <4>1. q = l + 1
        BY <1>1, <3>3, <3>5
      <4>2. path = SubSeq(u, q, First(u, q, {"#"}) - 1)
        BY <1>4, <3>5
      <4>3. path = <<>>
        BY <1>1, <4>1, <4>2, NoneBehind DEF l
      <4>4. <<>> \o <<>> = <<>>
        OBVIOUS
      <4> HIDE DEF rest
      <4> QED
        BY <3>1, <4>3, <4>4
    <3> QED
      BY <3>4, <3>5
  <2> QED
    BY <2>1, <2>2
<1>23. Cut(u, host, path, h - 1, g - 1, f - 1)
  <2>1. /\ SubSeq(u, (h - 1) + 1, g - 1) = port
        /\ SubSeq(u, (g - 1) + 1, f - 1) = rest
        /\ SubSeq(u, (f - 1) + 1, Len(u)) = fragment
        /\ SubSeq(u, 3, h - 1) = host
    BY <1>14 DEF l
  <2> HIDE DEF port, rest, fragment, host
  <2>2. rest # <<>> => rest[1] \in {"/", "?"}
    BY <1>19
  <2> QED
    BY <1>14, <1>15, <1>16, <1>17, <1>18, <1>20, <1>22, <2>1, <2>2 DEF Cut
<1>24. h - 1 \in 2 .. Len(u) /\ g - 1 \in 2 .. Len(u) /\ f - 1 \in 2 .. Len(u)
  BY <1>14 DEF l
<1> QED
  BY <1>3, <1>23, <1>24 DEF path

RequestInv ==
  request.host # <<>> =>
    request.host = url_get_host(url) /\ request.path = url_get_path(url)

LEMMA RequestStep == RequestInv /\ [HandshakeNext]_hvars => RequestInv'
<1> SUFFICES ASSUME RequestInv, [HandshakeNext]_hvars PROVE RequestInv'
  OBVIOUS
<1>1. url' = url
  BY DEF HandshakeNext, revoltc_ws_connect, HandshakePeer, Connect, Allocate, CannotGrow,
         RecvFails, Recv, Check, Arrives, Drops, hvars, request_vars
<1>2. \/ request' = request
      \/ request' = [host |-> url_get_host(url), path |-> url_get_path(url)]
  BY DEF HandshakeNext, revoltc_ws_connect, HandshakePeer, Connect, ws_handshake_send,
         Allocate, CannotGrow, RecvFails, Recv, Check, Arrives, Drops, hvars, request_vars
<1> QED
  BY <1>1, <1>2 DEF RequestInv

(* The request asks the host for the path that the URL names, without port   *)
(* and fragment (25-65), for every URL, but for the exception stated there.  *)
THEOREM RequestNamesUrlThm == HandshakeSpec => []RequestNamesUrl
<1>1. Init => RequestInv
  BY DEF Init, RequestInv
<1>2. HandshakeInv /\ RequestInv => RequestNamesUrl
  <2> SUFFICES ASSUME HandshakeInv, RequestInv, request.host # <<>>
               PROVE  \E i, j, k \in 2 .. Len(url) :
                        Cut(url, request.host, request.path, i, j, k)
    BY Zenon DEF RequestNamesUrl, Cut, PartsOf
  <2>1. PICK u \in DOMAIN Answers : url = url_normalize_scheme(u)
    BY DEF HandshakeInv, HandshakeTypeOK
  <2>2. u \in Seq(STRING)
    BY AnswersAssumption
  <2>3. Normal(STRING \cup {"http", "https", "://"}, url)
    BY <2>1, <2>2, SchemeNormal
  <2>4. request.host = url_get_host(url) /\ request.path = url_get_path(url)
    BY DEF RequestInv
  <2> QED
    BY <2>3, <2>4, UrlParts
<1> QED
  BY <1>1, <1>2, RequestStep, HandshakeSafe, PTL DEF HandshakeSpec

-----------------------------------------------------------------------------
(* Numbers of 16, 32 and 63 bits. *)
Below16(v) == v \in Nat /\ v <= 65535
Below32(v) == v \in Nat /\ v \div 65536 <= 65535
Below63(v) == v \in Nat /\ (v \div 65536) \div 65536 <= 2147483647

Header ==
  [fin : 0 .. 1, rsv : 0 .. 7, opcode : 0 .. 15, masked : 0 .. 1,
   key : {v \in Nat : Below32(v)}, len : Nat]

-----------------------------------------------------------------------------
LEMMA JoinedLen ==
  ASSUME NEW l \in Seq(Byte), NEW r \in Seq(Byte)
  PROVE  l \o r \in Seq(Byte) /\ Len(l \o r) = Len(l) + Len(r)
OBVIOUS

LEMMA Joined ==
  ASSUME NEW l \in Seq(Byte), NEW r \in Seq(Byte)
  PROVE  /\ l \o r \in Seq(Byte) /\ Len(l \o r) = Len(l) + Len(r)
         /\ \A j \in 1 .. Len(l) : (l \o r)[j] = l[j]
         /\ \A j \in 1 .. Len(r) : (l \o r)[Len(l) + j] = r[j]
<1>1. l \o r \in Seq(Byte) /\ Len(l \o r) = Len(l) + Len(r)
  OBVIOUS
<1>2. \A j \in 1 .. (Len(l) + Len(r)) :
        (l \o r)[j] = IF j <= Len(l) THEN l[j] ELSE r[j - Len(l)]
  OBVIOUS
<1>3. Len(l) \in Nat /\ Len(r) \in Nat
  OBVIOUS
<1>4. ASSUME NEW j \in 1 .. Len(l) PROVE (l \o r)[j] = l[j]
  BY <1>2, <1>3
<1>5. ASSUME NEW j \in 1 .. Len(r) PROVE (l \o r)[Len(l) + j] = r[j]
  <2>1. Len(l) + j \in 1 .. (Len(l) + Len(r)) /\ ~(Len(l) + j <= Len(l))
        /\ (Len(l) + j) - Len(l) = j
    BY <1>3
  <2> QED
    BY <1>2, <2>1
<1> QED
  BY <1>1, <1>4, <1>5

LEMMA U16 ==
  ASSUME NEW v \in Nat
  PROVE  /\ u16_bytes_be(v) \in Seq(Byte) /\ Len(u16_bytes_be(v)) = 2
         /\ bytes_be_u16(u16_bytes_be(v), 1) = v % 65536
<1>1. (v \div 256) % 256 \in Byte /\ v % 256 \in Byte
  BY DEF Byte
<1>2. (((v \div 256) % 256) * 256) + (v % 256) = v % 65536
  OBVIOUS
<1> QED
  BY <1>1, <1>2 DEF u16_bytes_be, bytes_be_u16

(* A number is read from the same bytes wherever they stand. *)
LEMMA Shifted16 ==
  ASSUME NEW l \in Seq(Byte), NEW r \in Seq(Byte), NEW i \in Nat \ {0},
         i + 1 <= Len(r)
  PROVE  bytes_be_u16(l \o r, Len(l) + i) = bytes_be_u16(r, i)
<1>1. i \in 1 .. Len(r) /\ i + 1 \in 1 .. Len(r)
  OBVIOUS
<1>2. (l \o r)[Len(l) + i] = r[i] /\ (l \o r)[Len(l) + (i + 1)] = r[i + 1]
  BY <1>1, Joined
<1>3. Len(l) + (i + 1) = (Len(l) + i) + 1
  OBVIOUS
<1> QED
  BY <1>2, <1>3 DEF bytes_be_u16

LEMMA Kept16 ==
  ASSUME NEW l \in Seq(Byte), NEW r \in Seq(Byte), NEW i \in Nat \ {0},
         i + 1 <= Len(l)
  PROVE  bytes_be_u16(l \o r, i) = bytes_be_u16(l, i)
<1>1. i \in 1 .. Len(l) /\ i + 1 \in 1 .. Len(l)
  OBVIOUS
<1> QED
  BY <1>1, Joined DEF bytes_be_u16

LEMMA U32 ==
  ASSUME NEW v \in Nat
  PROVE  /\ u32_bytes_be(v) \in Seq(Byte) /\ Len(u32_bytes_be(v)) = 4
         /\ bytes_be_u32(u32_bytes_be(v), 1)
              = (((v \div 65536) % 65536) * 65536) + (v % 65536)
<1> DEFINE l == u16_bytes_be(v \div 65536)
           r == u16_bytes_be(v)
<1>1. v \div 65536 \in Nat
  OBVIOUS
<1>2. l \in Seq(Byte) /\ Len(l) = 2
  BY <1>1, U16
<1>3. r \in Seq(Byte) /\ Len(r) = 2
  BY U16
<1>4. /\ bytes_be_u16(l, 1) = (v \div 65536) % 65536
      /\ bytes_be_u16(r, 1) = v % 65536
  BY <1>1, U16
<1>5. u32_bytes_be(v) = l \o r
  BY DEF u32_bytes_be
<1> HIDE DEF l, r
<1>6. bytes_be_u16(l \o r, 1) = bytes_be_u16(l, 1)
  BY <1>2, <1>3, 1 \in Nat \ {0}, 1 + 1 <= 2, Kept16
<1>7. bytes_be_u16(l \o r, 1 + 2) = bytes_be_u16(r, 1)
  <2>1. bytes_be_u16(l \o r, Len(l) + 1) = bytes_be_u16(r, 1)
    BY <1>2, <1>3, 1 \in Nat \ {0}, 1 + 1 <= 2, Shifted16
  <2>2. Len(l) + 1 = 1 + 2
    BY <1>2
  <2> QED
    BY <2>1, <2>2
<1>8. l \o r \in Seq(Byte) /\ Len(l \o r) = 4
  <2>1. l \o r \in Seq(Byte) /\ Len(l \o r) = Len(l) + Len(r)
    BY <1>2, <1>3, JoinedLen
  <2>2. Len(l) + Len(r) = 4
    BY <1>2, <1>3
  <2> QED
    BY <2>1, <2>2
<1> QED
  BY <1>4, <1>5, <1>6, <1>7, <1>8 DEF bytes_be_u32

LEMMA Shifted32 ==
  ASSUME NEW l \in Seq(Byte), NEW r \in Seq(Byte), NEW i \in Nat \ {0},
         i + 3 <= Len(r)
  PROVE  bytes_be_u32(l \o r, Len(l) + i) = bytes_be_u32(r, i)
<1>1. i + 2 \in Nat \ {0} /\ i + 1 <= Len(r) /\ (i + 2) + 1 <= Len(r)
  OBVIOUS
<1>2. /\ bytes_be_u16(l \o r, Len(l) + i) = bytes_be_u16(r, i)
      /\ bytes_be_u16(l \o r, Len(l) + (i + 2)) = bytes_be_u16(r, i + 2)
  BY <1>1, Shifted16
<1>3. Len(l) + (i + 2) = (Len(l) + i) + 2
  OBVIOUS
<1> QED
  BY <1>2, <1>3 DEF bytes_be_u32

LEMMA Kept32 ==
  ASSUME NEW l \in Seq(Byte), NEW r \in Seq(Byte), NEW i \in Nat \ {0},
         i + 3 <= Len(l)
  PROVE  bytes_be_u32(l \o r, i) = bytes_be_u32(l, i)
<1>1. i + 2 \in Nat \ {0} /\ i + 1 <= Len(l) /\ (i + 2) + 1 <= Len(l)
  OBVIOUS
<1>2. /\ bytes_be_u16(l \o r, i) = bytes_be_u16(l, i)
      /\ bytes_be_u16(l \o r, i + 2) = bytes_be_u16(l, i + 2)
  BY <1>1, Kept16
<1> QED
  BY <1>2 DEF bytes_be_u32

LEMMA Shifted64 ==
  ASSUME NEW l \in Seq(Byte), NEW r \in Seq(Byte), NEW i \in Nat \ {0},
         i + 7 <= Len(r)
  PROVE  bytes_be_u64(l \o r, Len(l) + i) = bytes_be_u64(r, i)
<1>1. i + 4 \in Nat \ {0} /\ i + 3 <= Len(r) /\ (i + 4) + 3 <= Len(r)
  OBVIOUS
<1>2. /\ bytes_be_u32(l \o r, Len(l) + i) = bytes_be_u32(r, i)
      /\ bytes_be_u32(l \o r, Len(l) + (i + 4)) = bytes_be_u32(r, i + 4)
  BY <1>1, Shifted32
<1>3. Len(l) + (i + 4) = (Len(l) + i) + 4
  OBVIOUS
<1> QED
  BY <1>2, <1>3 DEF bytes_be_u64

LEMMA Kept64 ==
  ASSUME NEW l \in Seq(Byte), NEW r \in Seq(Byte), NEW i \in Nat \ {0},
         i + 7 <= Len(l)
  PROVE  bytes_be_u64(l \o r, i) = bytes_be_u64(l, i)
<1>1. i + 4 \in Nat \ {0} /\ i + 3 <= Len(l) /\ (i + 4) + 3 <= Len(l)
  OBVIOUS
<1>2. /\ bytes_be_u32(l \o r, i) = bytes_be_u32(l, i)
      /\ bytes_be_u32(l \o r, i + 4) = bytes_be_u32(l, i + 4)
  BY <1>1, Kept32
<1> QED
  BY <1>2 DEF bytes_be_u64

(* The halves of a number make the number. *)
LEMMA UpperHalf == ASSUME NEW v \in Nat PROVE v \div 65536 \in Nat
OBVIOUS

LEMMA LowerHalf == ASSUME NEW v \in Nat PROVE v % 65536 \in Nat
OBVIOUS

LEMMA Halves ==
  ASSUME NEW v \in Nat
  PROVE  ((v \div 65536) * 65536) + (v % 65536) = v
OBVIOUS

LEMMA OneHalf == ASSUME NEW v \in Nat, v <= 65535 PROVE v % 65536 = v
OBVIOUS

LEMMA U32Value ==
  ASSUME NEW v \in Nat, Below32(v)
  PROVE  bytes_be_u32(u32_bytes_be(v), 1) = v
<1> DEFINE h == v \div 65536
<1>1. h \in Nat /\ h <= 65535 /\ (h * 65536) + (v % 65536) = v
  <2>1. h \in Nat
    BY UpperHalf
  <2>2. (h * 65536) + (v % 65536) = v
    BY Halves
  <2>3. h <= 65535
    BY DEF Below32
  <2> QED
    BY <2>1, <2>2, <2>3
<1>3. bytes_be_u32(u32_bytes_be(v), 1) = ((h % 65536) * 65536) + (v % 65536)
  BY U32
<1> HIDE DEF h
<1>2. h % 65536 = h
  BY <1>1, OneHalf
<1> QED
  BY <1>1, <1>2, <1>3

LEMMA U64 ==
  ASSUME NEW v \in Nat, Below63(v)
  PROVE  /\ u64_bytes_be(v) \in Seq(Byte) /\ Len(u64_bytes_be(v)) = 8
         /\ bytes_be_u64(u64_bytes_be(v), 1) = v
<1> DEFINE m == v \div 65536
           t == m \div 65536
           l == u32_bytes_be(t)
           r == u32_bytes_be(v)
<1>1. m \in Nat /\ t \in Nat /\ t <= 2147483647
  <2>1. m \in Nat
    BY UpperHalf
  <2>2. t \in Nat
    <3> HIDE DEF m
    <3> QED
      BY <2>1, UpperHalf
  <2>3. t <= 2147483647
    BY DEF Below63
  <2> QED
    BY <2>1, <2>2, <2>3
<1>2. Below32(t)
  <2> HIDE DEF t
  <2>1. t \div 65536 <= 65535
    BY <1>1
  <2> QED
    BY <1>1, <2>1 DEF Below32
<1>3. /\ l \in Seq(Byte) /\ Len(l) = 4 /\ r \in Seq(Byte) /\ Len(r) = 4
  BY <1>1, U32
<1>4. bytes_be_u32(l, 1) = t
  BY <1>1, <1>2, U32Value
<1>5. bytes_be_u32(r, 1) = ((m % 65536) * 65536) + (v % 65536)
  BY U32
<1>6. u64_bytes_be(v) = l \o r
  BY DEF u64_bytes_be
<1>7. /\ (t * 65536) + (m % 65536) = m
      /\ (m * 65536) + (v % 65536) = v
      /\ m % 65536 \in Nat /\ v % 65536 \in Nat
  <2>1. (m * 65536) + (v % 65536) = v
    BY Halves
  <2>2. v % 65536 \in Nat
    BY LowerHalf
  <2>3. (t * 65536) + (m % 65536) = m
    <3> HIDE DEF m
    <3> QED
      BY <1>1, Halves
  <2>4. m % 65536 \in Nat
    <3> HIDE DEF m
    <3> QED
      BY <1>1, LowerHalf
  <2> QED
    BY <2>1, <2>2, <2>3, <2>4
<1> HIDE DEF m, t, l, r
<1>8. bytes_be_u32(l \o r, 1) = t
  <2>1. 1 \in Nat \ {0} /\ 1 + 3 <= 4
    OBVIOUS
  <2> QED
    BY <1>3, <1>4, <2>1, Kept32
<1>9. bytes_be_u32(l \o r, 1 + 4) = bytes_be_u32(r, 1)
  <2>1. bytes_be_u32(l \o r, Len(l) + 1) = bytes_be_u32(r, 1)
    BY <1>3, 1 \in Nat \ {0}, 1 + 3 <= 4, Shifted32
  <2>2. Len(l) + 1 = 1 + 4
    BY <1>3
  <2> QED
    BY <2>1, <2>2
<1>10. l \o r \in Seq(Byte) /\ Len(l \o r) = 8
  <2>1. l \o r \in Seq(Byte) /\ Len(l \o r) = Len(l) + Len(r)
    BY <1>3, JoinedLen
  <2>2. Len(l) + Len(r) = 8
    BY <1>3
  <2> QED
    BY <2>1, <2>2
<1>11. ((t * 65536) * 65536) + (((m % 65536) * 65536) + (v % 65536)) = v
  <2> DEFINE x == m % 65536
             y == v % 65536
  <2>1. x \in Nat /\ y \in Nat /\ (t * 65536) + x = m /\ (m * 65536) + y = v
    BY <1>7
  <2> HIDE DEF x, y
  <2>2. ((t * 65536) * 65536) + ((x * 65536) + y) = v
    BY <1>1, <2>1
  <2> QED
    BY <2>2 DEF x, y
<1>12. bytes_be_u64(l \o r, 1) = ((t * 65536) * 65536) + (((m % 65536) * 65536) + (v % 65536))
  BY <1>5, <1>8, <1>9 DEF bytes_be_u64
<1> QED
  BY <1>6, <1>10, <1>11, <1>12

-----------------------------------------------------------------------------
LEMMA FirstByte ==
  ASSUME NEW f \in 0 .. 1, NEW r \in 0 .. 7, NEW c \in 0 .. 15
  PROVE  /\ f * 128 + r * 16 + c \in Byte
         /\ (f * 128 + r * 16 + c) \div 128 = f
         /\ ((f * 128 + r * 16 + c) \div 16) % 8 = r
         /\ (f * 128 + r * 16 + c) % 16 = c
<1> DEFINE x == f * 128 + r * 16 + c
<1>1. x \in Byte
  BY DEF Byte
<1>2. x \div 128 = f
  OBVIOUS
<1>3. (x \div 16) % 8 = r
  OBVIOUS
<1>4. x % 16 = c
  OBVIOUS
<1> QED
  BY <1>1, <1>2, <1>3, <1>4

LEMMA SecondByte ==
  ASSUME NEW m \in 0 .. 1, NEW c \in 0 .. 127
  PROVE  /\ m * 128 + c \in Byte
         /\ (m * 128 + c) \div 128 = m
         /\ (m * 128 + c) % 128 = c
         /\ m * 128 + c < 128 <=> m = 0
<1>1. m * 128 + c \in Byte
  BY DEF Byte
<1>2. (m * 128 + c) \div 128 = m
  OBVIOUS
<1>3. (m * 128 + c) % 128 = c
  OBVIOUS
<1>4. m * 128 + c < 128 <=> m = 0
  OBVIOUS
<1> QED
  BY <1>1, <1>2, <1>3, <1>4

(* What the second byte of a header says, and how many bytes of length follow. *)
Code(h) == IF h.len < 126 THEN h.len ELSE IF h.len <= 65535 THEN 126 ELSE 127
Ext(h) == IF h.len < 126 THEN 0 ELSE IF h.len <= 65535 THEN 2 ELSE 8
KeyLen(h) == IF h.masked = 1 THEN 4 ELSE 0

LEMMA HeaderFields ==
  ASSUME NEW h \in Header
  PROVE  /\ h.fin \in 0 .. 1 /\ h.rsv \in 0 .. 7 /\ h.opcode \in 0 .. 15
         /\ h.masked \in 0 .. 1 /\ h.len \in Nat
         /\ h.key \in Nat /\ Below32(h.key)
         /\ Code(h) \in 0 .. 127 /\ Ext(h) \in {0, 2, 8} /\ KeyLen(h) \in {0, 4}
  BY DEF Header, Code, Ext, KeyLen

LEMMA LegalIsBelow63 ==
  ASSUME NEW n \in Nat, n <= PayloadMax
  PROVE  Below63(n)
<1>1. PayloadMax \in Nat
  BY PayloadMaxAssumption
<1>2. \A x, y \in Nat : x <= y => x \div 65536 <= y \div 65536
  OBVIOUS
<1>3. n \div 65536 \in Nat /\ PayloadMax \div 65536 \in Nat
  BY <1>1, UpperHalf
<1>4. (n \div 65536) \div 65536 <= (PayloadMax \div 65536) \div 65536
  BY <1>1, <1>2, <1>3
<1>5. (n \div 65536) \div 65536 \in Nat /\ (PayloadMax \div 65536) \div 65536 \in Nat
  BY <1>3, UpperHalf
<1> QED
  BY <1>4, <1>5, PayloadMaxAssumption DEF Below63

LEMMA LengthPart ==
  ASSUME NEW h \in Header, Below63(h.len)
  PROVE  /\ LengthBytes(h) \in Seq(Byte) /\ Len(LengthBytes(h)) = 1 + Ext(h)
         /\ LengthBytes(h)[1] = h.masked * 128 + Code(h)
         /\ Ext(h) = 2 => bytes_be_u16(LengthBytes(h), 2) = h.len
         /\ Ext(h) = 8 => bytes_be_u64(LengthBytes(h), 2) = h.len
<1> DEFINE l == << h.masked * 128 + Code(h) >>
<1>1. l \in Seq(Byte) /\ Len(l) = 1 /\ l[1] = h.masked * 128 + Code(h)
  BY HeaderFields, SecondByte
<1>2. CASE Ext(h) = 0
  <2>1. LengthBytes(h) = l
    BY <1>2, HeaderFields DEF LengthBytes, Ext, Code
  <2> QED
    BY <1>1, <1>2, <2>1
<1>3. CASE Ext(h) = 2
  <2> DEFINE r == u16_bytes_be(h.len)
  <2>1. LengthBytes(h) = l \o r
    BY <1>3, HeaderFields DEF LengthBytes, Ext, Code
  <2>2. r \in Seq(Byte) /\ Len(r) = 2
    BY HeaderFields, U16
  <2>3. bytes_be_u16(r, 1) = h.len
    <3>1. h.len \in Nat /\ h.len <= 65535
      BY <1>3, HeaderFields DEF Ext
    <3>2. h.len % 65536 = h.len
      BY <3>1, OneHalf
    <3> QED
      BY <3>1, <3>2, U16
  <2> HIDE DEF l, r
  <2>4. l \o r \in Seq(Byte) /\ Len(l \o r) = Len(l) + Len(r)
    BY <1>1, <2>2, JoinedLen
  <2>5. 1 \in 1 .. Len(l)
    BY <1>1
  <2>6. (l \o r)[1] = l[1]
    BY <1>1, <2>2, <2>5, Joined
  <2>7. bytes_be_u16(l \o r, Len(l) + 1) = bytes_be_u16(r, 1)
    BY <1>1, <2>2, 1 \in Nat \ {0}, 1 + 1 <= 2, Shifted16
  <2>8. Len(l) + 1 = 2 /\ Len(l) + Len(r) = 1 + 2
    BY <1>1, <2>2
  <2> QED
    BY <1>1, <1>3, <2>1, <2>3, <2>4, <2>6, <2>7, <2>8
<1>4. CASE Ext(h) = 8
  <2> DEFINE r == u64_bytes_be(h.len)
  <2>1. LengthBytes(h) = l \o r
    BY <1>4, HeaderFields DEF LengthBytes, Ext, Code
  <2>2. r \in Seq(Byte) /\ Len(r) = 8 /\ bytes_be_u64(r, 1) = h.len
    BY HeaderFields, U64
  <2> HIDE DEF l, r
  <2>4. l \o r \in Seq(Byte) /\ Len(l \o r) = Len(l) + Len(r)
    BY <1>1, <2>2, JoinedLen
  <2>5. 1 \in 1 .. Len(l)
    BY <1>1
  <2>6. (l \o r)[1] = l[1]
    BY <1>1, <2>2, <2>5, Joined
  <2>7. bytes_be_u64(l \o r, Len(l) + 1) = bytes_be_u64(r, 1)
    BY <1>1, <2>2, 1 \in Nat \ {0}, 1 + 7 <= 8, Shifted64
  <2>8. Len(l) + 1 = 2 /\ Len(l) + Len(r) = 1 + 8
    BY <1>1, <2>2
  <2> QED
    BY <1>1, <1>4, <2>1, <2>2, <2>4, <2>6, <2>7, <2>8
<1> QED
  BY <1>2, <1>3, <1>4, HeaderFields

FirstOf(h) == h.fin * 128 + h.rsv * 16 + h.opcode
SecondOf(h) == h.masked * 128 + Code(h)

(* Where serialize_header puts what. *)
LEMMA HeaderParts ==
  ASSUME NEW h \in Header, ~ILLEGAL_PAYLOAD_LEN(h.opcode, h.len), NEW s,
         s = serialize_header(h).bytes
  PROVE  /\ serialize_header(h).result = "OK"
         /\ s \in Seq(Byte) /\ Len(s) = 2 + Ext(h) + KeyLen(h)
         /\ s[1] = FirstOf(h) /\ s[2] = SecondOf(h)
         /\ Ext(h) = 2 => bytes_be_u16(s, 3) = h.len
         /\ Ext(h) = 8 => bytes_be_u64(s, 3) = h.len
         /\ KeyLen(h) = 4 => bytes_be_u32(s, 3 + Ext(h)) = h.key
<1> DEFINE a == << FirstOf(h) >>
           l == LengthBytes(h)
           k == IF h.masked = 1 THEN u32_bytes_be(h.key) ELSE <<>>
           al == a \o l
<1>1. /\ serialize_header(h).result = "OK" /\ s = al \o k
  BY DEF serialize_header, FirstOf
<1>2. a \in Seq(Byte) /\ Len(a) = 1 /\ a[1] = FirstOf(h)
  <2>1. FirstOf(h) \in Byte
    BY HeaderFields, FirstByte DEF FirstOf
  <2> QED
    BY <2>1
<1>3. Ext(h) \in {0, 2, 8} /\ KeyLen(h) \in {0, 4}
  BY HeaderFields
<1>4. /\ l \in Seq(Byte) /\ Len(l) = 1 + Ext(h) /\ l[1] = SecondOf(h)
      /\ Ext(h) = 2 => bytes_be_u16(l, 2) = h.len
      /\ Ext(h) = 8 => bytes_be_u64(l, 2) = h.len
  <2>1. h.len \in Nat /\ h.len <= PayloadMax
    BY HeaderFields, PayloadMaxAssumption DEF ILLEGAL_PAYLOAD_LEN
  <2> QED
    BY <2>1, LegalIsBelow63, LengthPart DEF SecondOf
<1>5. /\ k \in Seq(Byte) /\ Len(k) = KeyLen(h)
      /\ KeyLen(h) = 4 => bytes_be_u32(k, 1) = h.key
  <2>1. CASE h.masked = 1
    <3>1. u32_bytes_be(h.key) \in Seq(Byte) /\ Len(u32_bytes_be(h.key)) = 4
      BY HeaderFields, U32
    <3>2. bytes_be_u32(u32_bytes_be(h.key), 1) = h.key
      BY HeaderFields, U32Value
    <3> QED
      BY <2>1, <3>1, <3>2 DEF KeyLen
  <2>2. CASE h.masked # 1
    BY <2>2 DEF KeyLen
  <2> QED
    BY <2>1, <2>2
<1> HIDE DEF a, l, k
<1>6. /\ al \in Seq(Byte) /\ Len(al) = 2 + Ext(h)
      /\ al[1] = FirstOf(h) /\ al[2] = SecondOf(h)
  <2>1. a \o l \in Seq(Byte) /\ Len(a \o l) = Len(a) + Len(l)
    BY <1>2, <1>4, JoinedLen
  <2>2. Len(a) + Len(l) = 2 + Ext(h) /\ 1 \in 1 .. Len(a) /\ 1 \in 1 .. Len(l)
    BY <1>2, <1>3, <1>4
  <2>3. (a \o l)[1] = a[1] /\ (a \o l)[Len(a) + 1] = l[1]
    BY <1>2, <1>4, <2>2, Joined
  <2>4. Len(a) + 1 = 2
    BY <1>2
  <2> QED
    BY <1>2, <1>4, <2>1, <2>2, <2>3, <2>4
<1>7. ASSUME Ext(h) = 2 PROVE bytes_be_u16(al, 3) = h.len
  <2>1. 2 \in Nat \ {0} /\ 2 + 1 <= Len(l) /\ Len(a) + 2 = 3
    BY <1>2, <1>4, <1>7
  <2>2. bytes_be_u16(a \o l, Len(a) + 2) = bytes_be_u16(l, 2)
    BY <1>2, <1>4, <2>1, Shifted16
  <2> QED
    BY <1>4, <1>7, <2>1, <2>2
<1>8. ASSUME Ext(h) = 8 PROVE bytes_be_u64(al, 3) = h.len
  <2>1. 2 \in Nat \ {0} /\ 2 + 7 <= Len(l) /\ Len(a) + 2 = 3
    BY <1>2, <1>4, <1>8
  <2>2. bytes_be_u64(a \o l, Len(a) + 2) = bytes_be_u64(l, 2)
    BY <1>2, <1>4, <2>1, Shifted64
  <2> QED
    BY <1>4, <1>8, <2>1, <2>2
<1> HIDE DEF al
<1>9. /\ al \o k \in Seq(Byte) /\ Len(al \o k) = 2 + Ext(h) + KeyLen(h)
      /\ (al \o k)[1] = FirstOf(h) /\ (al \o k)[2] = SecondOf(h)
  <2>1. al \o k \in Seq(Byte) /\ Len(al \o k) = Len(al) + Len(k)
    BY <1>5, <1>6, JoinedLen
  <2>2. Len(al) + Len(k) = 2 + Ext(h) + KeyLen(h) /\ 1 \in 1 .. Len(al) /\ 2 \in 1 .. Len(al)
    BY <1>3, <1>5, <1>6
  <2>3. (al \o k)[1] = al[1] /\ (al \o k)[2] = al[2]
    BY <1>5, <1>6, <2>2, Joined
  <2> QED
    BY <1>6, <2>1, <2>2, <2>3
<1>10. ASSUME Ext(h) = 2 PROVE bytes_be_u16(al \o k, 3) = h.len
  <2>1. 3 \in Nat \ {0} /\ 3 + 1 <= Len(al)
    BY <1>6, <1>10
  <2> QED
    BY <1>5, <1>6, <1>7, <1>10, <2>1, Kept16
<1>11. ASSUME Ext(h) = 8 PROVE bytes_be_u64(al \o k, 3) = h.len
  <2>1. 3 \in Nat \ {0} /\ 3 + 7 <= Len(al)
    BY <1>6, <1>11
  <2> QED
    BY <1>5, <1>6, <1>8, <1>11, <2>1, Kept64
<1>12. ASSUME KeyLen(h) = 4 PROVE bytes_be_u32(al \o k, 3 + Ext(h)) = h.key
  <2>1. 1 \in Nat \ {0} /\ 1 + 3 <= Len(k) /\ Len(al) + 1 = 3 + Ext(h)
    BY <1>3, <1>5, <1>6, <1>12
  <2>2. bytes_be_u32(al \o k, Len(al) + 1) = bytes_be_u32(k, 1)
    BY <1>5, <1>6, <2>1, Shifted32
  <2> QED
    BY <1>5, <1>12, <2>1, <2>2
<1> QED
  BY <1>1, <1>9, <1>10, <1>11, <1>12

(* What is read of a header, or of a part with its first two bytes.          *)
LEMMA ReadBack ==
  ASSUME NEW h \in Header, NEW p, p[1] = FirstOf(h), p[2] = SecondOf(h)
  PROVE  /\ ShortLen(p) = Code(h) /\ Extended(p) = Ext(h)
         /\ p[2] < 128 <=> h.masked = 0
         /\ p[1] % 16 = h.opcode
<1>1. /\ p[1] \div 128 = h.fin /\ (p[1] \div 16) % 8 = h.rsv /\ p[1] % 16 = h.opcode
  BY HeaderFields, FirstByte DEF FirstOf
<1>2. /\ p[2] \div 128 = h.masked /\ p[2] % 128 = Code(h)
      /\ p[2] < 128 <=> h.masked = 0
  BY HeaderFields, SecondByte DEF SecondOf
<1>3. Extended(p) = Ext(h)
  <2>1. Code(h) = 126 <=> Ext(h) = 2
    BY HeaderFields DEF Code, Ext
  <2>2. Code(h) = 127 <=> Ext(h) = 8
    BY HeaderFields DEF Code, Ext
  <2> QED
    BY <1>2, <2>1, <2>2, HeaderFields DEF Extended, ShortLen
<1> QED
  BY <1>1, <1>2, <1>3 DEF ShortLen

WithKey(h, key) == [h EXCEPT !.key = key]

LEMMA FieldsReadBack ==
  ASSUME NEW h \in Header, NEW p, p[1] = FirstOf(h), p[2] = SecondOf(h)
  PROVE  \A key :
         /\ HeaderIn(p, h.len, key) = WithKey(h, key)
         /\ HeaderIn(p, h.len, key).key = key
         /\ key = h.key => HeaderIn(p, h.len, key) = h
<1> SUFFICES ASSUME NEW key
             PROVE  /\ HeaderIn(p, h.len, key) = WithKey(h, key)
                    /\ HeaderIn(p, h.len, key).key = key
                    /\ key = h.key => HeaderIn(p, h.len, key) = h
  OBVIOUS
<1>1. /\ p[1] \div 128 = h.fin /\ (p[1] \div 16) % 8 = h.rsv /\ p[1] % 16 = h.opcode
  BY HeaderFields, FirstByte DEF FirstOf
<1>2. p[2] \div 128 = h.masked
  BY HeaderFields, SecondByte DEF SecondOf
<1>3. HeaderIn(p, h.len, key) =
        [fin |-> h.fin, rsv |-> h.rsv, opcode |-> h.opcode, masked |-> h.masked,
         key |-> key, len |-> h.len]
  BY <1>1, <1>2 DEF HeaderIn
<1>4. h = [fin |-> h.fin, rsv |-> h.rsv, opcode |-> h.opcode, masked |-> h.masked,
           key |-> h.key, len |-> h.len]
  BY DEF Header
<1>5. WithKey(h, key) =
        [fin |-> h.fin, rsv |-> h.rsv, opcode |-> h.opcode, masked |-> h.masked,
         key |-> key, len |-> h.len]
  BY DEF Header, WithKey
<1> QED
  BY <1>3, <1>4, <1>5

LEMMA LenReadBack ==
  ASSUME NEW h \in Header, NEW p, p[1] = FirstOf(h), p[2] = SecondOf(h),
         Ext(h) = 2 => bytes_be_u16(p, 3) = h.len,
         Ext(h) = 8 => bytes_be_u64(p, 3) = h.len
  PROVE  LenIn(p) = h.len
<1>1. ShortLen(p) = Code(h) /\ Extended(p) = Ext(h)
  BY ReadBack
<1>2. Ext(h) = 0 => Code(h) = h.len
  BY HeaderFields DEF Ext, Code
<1> QED
  BY <1>1, <1>2, HeaderFields DEF LenIn

(* The peer, or revoltc_ws_recv, reads the header that was written, whatever *)
(* its fields (websocket.c 649-762); without a mask it finds some key that   *)
(* means nothing.                                                            *)
THEOREM DecodesWhatWasEncoded ==
  \A h \in Header :
    LET s == serialize_header(h)
        d == deserialize_header(s.bytes)
    IN s.result = "OK" =>
         /\ d.result = "OK" /\ d.header_len = Len(s.bytes)
         /\ d.header = IF h.masked = 1 THEN h ELSE WithKey(h, d.header.key)
<1> SUFFICES ASSUME NEW h \in Header, NEW s, NEW d, s = serialize_header(h).bytes,
                    d = deserialize_header(s), serialize_header(h).result = "OK"
             PROVE  /\ d.result = "OK" /\ d.header_len = Len(s)
                    /\ d.header = IF h.masked = 1 THEN h
                                  ELSE WithKey(h, d.header.key)
  OBVIOUS
<1>1. ~ILLEGAL_PAYLOAD_LEN(h.opcode, h.len)
  BY DEF serialize_header
<1>2. /\ s \in Seq(Byte) /\ Len(s) = 2 + Ext(h) + KeyLen(h)
      /\ s[1] = FirstOf(h) /\ s[2] = SecondOf(h)
      /\ KeyLen(h) = 4 => bytes_be_u32(s, 3 + Ext(h)) = h.key
  BY <1>1, HeaderParts
<1>3. LenIn(s) = h.len
  BY <1>1, HeaderParts, LenReadBack
<1>4. /\ ShortLen(s) = Code(h) /\ Extended(s) = Ext(h) /\ s[1] % 16 = h.opcode
      /\ s[2] < 128 <=> h.masked = 0
  BY <1>2, ReadBack
<1>5. /\ Ext(h) \in {0, 2, 8} /\ h.masked \in {0, 1}
      /\ KeyLen(h) = IF h.masked = 1 THEN 4 ELSE 0
      /\ Ext(h) = 0 => Code(h) = h.len
  BY HeaderFields DEF KeyLen, Ext, Code
<1>6. \E key : /\ d = Decoded("OK", HeaderIn(s, h.len, key), Len(s))
               /\ h.masked = 1 => key = h.key
  <2>1. ~(Len(s) < 2 \/ Len(s) < 2 + Extended(s))
    BY <1>2, <1>4, <1>5
  <2>2. CASE h.masked = 1
    <3>1. Len(s) # 2 /\ ~(s[2] < 128) /\ 6 + Extended(s) = Len(s)
          /\ ~(Len(s) < 6 + Extended(s))
      BY <1>2, <1>4, <1>5, <2>2
    <3>2. d = Decoded("OK", HeaderIn(s, LenIn(s), bytes_be_u32(s, 3 + Extended(s))),
                      6 + Extended(s))
      BY <1>1, <1>3, <1>4, <2>1, <3>1 DEF deserialize_header
    <3>3. bytes_be_u32(s, 3 + Extended(s)) = h.key
      BY <1>2, <1>4, <1>5, <2>2
    <3> QED
      BY <1>3, <3>1, <3>2, <3>3
  <2>3. CASE h.masked = 0 /\ Len(s) = 2
    <3>1. d = Decoded("OK", HeaderIn(s, ShortLen(s), Unread), 2)
      BY <2>1, <2>3 DEF deserialize_header
    <3>2. ShortLen(s) = h.len
      <4>1. 2 = 2 + Ext(h) + KeyLen(h) /\ KeyLen(h) = 0
        BY <1>2, <1>5, <2>3
      <4>2. Ext(h) = 0
        BY <1>5, <4>1
      <4> QED
        BY <1>4, <1>5, <4>2
    <3> QED
      BY <2>3, <3>1, <3>2
  <2>4. CASE h.masked = 0 /\ Len(s) # 2
    <3>1. s[2] < 128 /\ 2 + Extended(s) = Len(s)
      BY <1>2, <1>4, <1>5, <2>4
    <3>2. d = Decoded("OK", HeaderIn(s, LenIn(s), 0), 2 + Extended(s))
      BY <1>1, <1>3, <1>4, <2>1, <2>4, <3>1 DEF deserialize_header
    <3> QED
      BY <1>3, <2>4, <3>1, <3>2
  <2> QED
    BY <1>5, <2>2, <2>3, <2>4
<1>7. PICK key : /\ d = Decoded("OK", HeaderIn(s, h.len, key), Len(s))
                 /\ h.masked = 1 => key = h.key
  BY <1>6
<1>8. /\ d.result = "OK" /\ d.header = HeaderIn(s, h.len, key)
      /\ d.header_len = Len(s)
  BY <1>7 DEF Decoded
<1>9. /\ HeaderIn(s, h.len, key) = WithKey(h, key)
      /\ HeaderIn(s, h.len, key).key = key
      /\ key = h.key => HeaderIn(s, h.len, key) = h
  <2>1. s[1] = FirstOf(h) /\ s[2] = SecondOf(h)
    BY <1>2
  <2>2. \A k : /\ HeaderIn(s, h.len, k) = WithKey(h, k)
               /\ HeaderIn(s, h.len, k).key = k
               /\ k = h.key => HeaderIn(s, h.len, k) = h
    BY <2>1, FieldsReadBack
  <2> QED
    BY <2>2, Zenon
<1> QED
  BY <1>7, <1>8, <1>9

(* A part of a header is never taken for a whole one (694-762), but for the  *)
(* first two bytes of a short masked header.                                 *)
THEOREM PartsAreInsufficient ==
  ASSUME NEW h \in Header, NEW s, s = serialize_header(h).bytes,
         serialize_header(h).result = "OK", NEW n \in 0 .. Len(s) - 1
  PROVE  \/ deserialize_header(SubSeq(s, 1, n)).result = "INSUFFICIENT_DATA"
         \/ n = 2 /\ h.masked = 1 /\ h.len < 126
<1> DEFINE p == SubSeq(s, 1, n)
<1>1. ~ILLEGAL_PAYLOAD_LEN(h.opcode, h.len)
  BY DEF serialize_header
<1>2. /\ s \in Seq(Byte) /\ Len(s) = 2 + Ext(h) + KeyLen(h)
      /\ s[1] = FirstOf(h) /\ s[2] = SecondOf(h)
      /\ Ext(h) = 2 => bytes_be_u16(s, 3) = h.len
      /\ Ext(h) = 8 => bytes_be_u64(s, 3) = h.len
  BY <1>1, HeaderParts
<1>3. /\ Ext(h) \in {0, 2, 8} /\ h.masked \in {0, 1} /\ h.len \in Nat
      /\ KeyLen(h) = IF h.masked = 1 THEN 4 ELSE 0
      /\ Ext(h) = 0 <=> h.len < 126
  BY HeaderFields DEF KeyLen, Ext
<1>4. n \in Nat /\ n < Len(s)
  BY <1>2, <1>3
<1>5. /\ p \in Seq(Byte) /\ Len(p) = n
      /\ \A j \in 1 .. n : p[j] = s[j]
  BY <1>2, <1>4
<1> HIDE DEF p
<1>6. CASE n < 2
  BY <1>5, <1>6 DEF deserialize_header, Undecoded, Decoded, p
<1>7. CASE n >= 2
  <2>1. p[1] = FirstOf(h) /\ p[2] = SecondOf(h)
    BY <1>2, <1>4, <1>5, <1>7
  <2>2. /\ Extended(p) = Ext(h) /\ p[1] % 16 = h.opcode
        /\ p[2] < 128 <=> h.masked = 0
    BY <2>1, ReadBack
  <2>3. CASE n < 2 + Ext(h)
    BY <1>5, <2>2, <2>3 DEF deserialize_header, Undecoded, Decoded, p
  <2>4. CASE n >= 2 + Ext(h) /\ n # 2
    <3>1. h.masked = 1 /\ n < 6 + Ext(h)
      BY <1>2, <1>3, <1>4, <2>4
    <3>2. LenIn(p) = h.len
      <4>1. ASSUME Ext(h) = 2 PROVE bytes_be_u16(p, 3) = h.len
        <5>1. 3 \in 1 .. n /\ 3 + 1 \in 1 .. n
          BY <1>4, <2>4, <4>1
        <5> QED
          BY <1>2, <1>5, <4>1, <5>1 DEF bytes_be_u16
      <4>2. ASSUME Ext(h) = 8 PROVE bytes_be_u64(p, 3) = h.len
        <5>1. \A j \in 3 .. 10 : j \in 1 .. n
          BY <1>4, <2>4, <4>2
        <5>2. \A j \in 3 .. 10 : p[j] = s[j]
          BY <1>5, <5>1
        <5>3. bytes_be_u64(p, 3) = bytes_be_u64(s, 3)
          <6>1. /\ p[3] = s[3] /\ p[3 + 1] = s[3 + 1]
                /\ p[3 + 2] = s[3 + 2] /\ p[3 + 2 + 1] = s[3 + 2 + 1]
                /\ p[3 + 4] = s[3 + 4] /\ p[3 + 4 + 1] = s[3 + 4 + 1]
                /\ p[3 + 4 + 2] = s[3 + 4 + 2] /\ p[3 + 4 + 2 + 1] = s[3 + 4 + 2 + 1]
            BY <5>2
          <6>2. /\ bytes_be_u16(p, 3) = bytes_be_u16(s, 3)
                /\ bytes_be_u16(p, 3 + 2) = bytes_be_u16(s, 3 + 2)
            BY <6>1 DEF bytes_be_u16
          <6>3. /\ bytes_be_u16(p, 3 + 4) = bytes_be_u16(s, 3 + 4)
                /\ bytes_be_u16(p, 3 + 4 + 2) = bytes_be_u16(s, 3 + 4 + 2)
            BY <6>1 DEF bytes_be_u16
          <6> QED
            BY <6>2, <6>3 DEF bytes_be_u64, bytes_be_u32
        <5> QED
          BY <1>2, <4>2, <5>3
      <4> QED
        BY <2>1, <4>1, <4>2, LenReadBack
    <3>3. ~(Len(p) < 2 \/ Len(p) < 2 + Extended(p)) /\ Len(p) # 2
          /\ Len(p) < 6 + Extended(p) /\ ~(p[2] < 128)
      BY <1>3, <1>4, <1>5, <1>7, <2>2, <2>4, <3>1
    <3> QED
      BY <1>1, <2>2, <3>2, <3>3 DEF deserialize_header, Undecoded, Decoded, p
  <2>5. CASE n = 2 /\ ~(n < 2 + Ext(h))
    BY <1>2, <1>3, <1>4, <2>5
  <2> QED
    BY <1>3, <1>4, <2>3, <2>4, <2>5
<1> QED
  BY <1>4, <1>6, <1>7

-----------------------------------------------------------------------------
(* The bits of a byte, and the byte of eight bits.                           *)
Bit(a, n) == (a \div n) % 2
LEMMA BitsOf ==
  ASSUME NEW a \in Byte
  PROVE  /\ a = 128 * Bit(a, 128) + 64 * Bit(a, 64) + 32 * Bit(a, 32) + 16 * Bit(a, 16)
                + 8 * Bit(a, 8) + 4 * Bit(a, 4) + 2 * Bit(a, 2) + Bit(a, 1)
         /\ \A n \in {128, 64, 32, 16, 8, 4, 2, 1} : Bit(a, n) \in {0, 1}
  BY DEF Bit, Byte

LEMMA ByteOf ==
  ASSUME NEW x8 \in {0, 1}, NEW x7 \in {0, 1}, NEW x6 \in {0, 1}, NEW x5 \in {0, 1},
         NEW x4 \in {0, 1}, NEW x3 \in {0, 1}, NEW x2 \in {0, 1}, NEW x1 \in {0, 1},
         NEW a, a = 128 * x8 + 64 * x7 + 32 * x6 + 16 * x5 + 8 * x4 + 4 * x3 + 2 * x2 + x1
  PROVE  /\ a \in Byte
         /\ Bit(a, 128) = x8 /\ Bit(a, 64) = x7 /\ Bit(a, 32) = x6 /\ Bit(a, 16) = x5
         /\ Bit(a, 8) = x4 /\ Bit(a, 4) = x3 /\ Bit(a, 2) = x2 /\ Bit(a, 1) = x1
  BY DEF Bit, Byte

LEMMA XorBits ==
  ASSUME NEW a \in Byte, NEW b \in Byte
  PROVE  /\ Xor(a, b) \in Byte
         /\ \A n \in {128, 64, 32, 16, 8, 4, 2, 1} :
              Bit(Xor(a, b), n) = IF Bit(a, n) = Bit(b, n) THEN 0 ELSE 1
<1> DEFINE X(n) == IF Bit(a, n) = Bit(b, n) THEN 0 ELSE 1
<1>1. \A n \in {128, 64, 32, 16, 8, 4, 2, 1} : X(n) \in {0, 1}
  OBVIOUS
<1>2. Xor(a, b) = 128 * X(128) + 64 * X(64) + 32 * X(32) + 16 * X(16)
                  + 8 * X(8) + 4 * X(4) + 2 * X(2) + X(1)
  BY DEF Xor, Bit
<1> HIDE DEF X
<1>3. /\ X(128) \in {0, 1} /\ X(64) \in {0, 1} /\ X(32) \in {0, 1} /\ X(16) \in {0, 1}
      /\ X(8) \in {0, 1} /\ X(4) \in {0, 1} /\ X(2) \in {0, 1} /\ X(1) \in {0, 1}
  BY <1>1
<1>4. /\ Xor(a, b) \in Byte
      /\ Bit(Xor(a, b), 128) = X(128) /\ Bit(Xor(a, b), 64) = X(64)
      /\ Bit(Xor(a, b), 32) = X(32) /\ Bit(Xor(a, b), 16) = X(16)
      /\ Bit(Xor(a, b), 8) = X(8) /\ Bit(Xor(a, b), 4) = X(4)
      /\ Bit(Xor(a, b), 2) = X(2) /\ Bit(Xor(a, b), 1) = X(1)
  BY <1>2, <1>3, ByteOf
<1> QED
  BY <1>4 DEF X

(* A mask that is laid over a byte twice is gone.                            *)
LEMMA XorTwice ==
  ASSUME NEW a \in Byte, NEW b \in Byte
  PROVE  Xor(Xor(a, b), b) = a
<1> DEFINE x == Xor(a, b)
           y == Xor(x, b)
<1>1. x \in Byte /\ y \in Byte
  BY XorBits
<1>2. \A n \in {128, 64, 32, 16, 8, 4, 2, 1} : Bit(y, n) = Bit(a, n)
  <2> SUFFICES ASSUME NEW n \in {128, 64, 32, 16, 8, 4, 2, 1} PROVE Bit(y, n) = Bit(a, n)
    OBVIOUS
  <2>1. Bit(x, n) = IF Bit(a, n) = Bit(b, n) THEN 0 ELSE 1
    BY XorBits
  <2>2. Bit(y, n) = IF Bit(x, n) = Bit(b, n) THEN 0 ELSE 1
    BY <1>1, XorBits
  <2>3. Bit(a, n) \in {0, 1} /\ Bit(b, n) \in {0, 1}
    BY BitsOf
  <2> QED
    BY <2>1, <2>2, <2>3
<1> HIDE DEF x, y
<1>3. /\ Bit(y, 128) = Bit(a, 128) /\ Bit(y, 64) = Bit(a, 64)
      /\ Bit(y, 32) = Bit(a, 32) /\ Bit(y, 16) = Bit(a, 16)
      /\ Bit(y, 8) = Bit(a, 8) /\ Bit(y, 4) = Bit(a, 4)
      /\ Bit(y, 2) = Bit(a, 2) /\ Bit(y, 1) = Bit(a, 1)
  BY <1>2
<1>4. y = a
  BY <1>1, <1>3, BitsOf
<1> QED
  BY <1>4 DEF x, y

-----------------------------------------------------------------------------
(* The frames a call puts into its buffer, and what may become of them.      *)
Accepted == {f \in Outgoing : serialize_header(HeaderOf(f)).result = "OK"}
HeaderBytes(f) == serialize_header(HeaderOf(f)).bytes
Packets == {[Buffered(f) EXCEPT !.whole = all] : f \in Accepted, all \in BOOLEAN}

(* While a frame is sent the call is connected and the wire has room for it. *)
InBuffer ==
  \E f \in Accepted :
    /\ sending = << Buffered(f) >>
    /\ reach = Reach(f, Len(HeaderBytes(f)))
    /\ connected /\ Len(wire) < MaxSent
WriterInv ==
  /\ wire \in Seq(Packets)
  /\ sending = <<>> \/ InBuffer

LEMMA OutgoingHeaders ==
  ASSUME NEW f \in Outgoing
  PROVE  /\ HeaderOf(f) \in Header
         /\ HeaderOf(f).masked = f.masked /\ HeaderOf(f).len = f.len
         /\ HeaderOf(f).key = f.key
  BY OutgoingAssumption DEF HeaderOf, Header, Below32

LEMMA BufferedFields ==
  ASSUME NEW f \in Accepted, NEW all
  PROVE  LET e == [Buffered(f) EXCEPT !.whole = all] IN
         /\ e.frame = f /\ e.header = HeaderBytes(f) /\ e.whole = all
         /\ e.byte = IF f.len > 0 /\ f.masked = 1
                     THEN revoltc_ws_mask(LastFour(HeaderBytes(f)), Len(HeaderBytes(f)),
                                          f.index, f.byte)
                     ELSE f.byte
         /\ Buffered(f).frame = f
  BY DEF Buffered, HeaderBytes

LEMMA WriterInvInit == SessionInit => WriterInv
  BY DEF SessionInit, WriterInit, WriterInv

(* What a step can do to the writer.                                         *)
LEMMA WriterStep ==
  ASSUME WriterInv, [SessionNext]_svars
  PROVE  WriterInv'
<1>1. CASE UNCHANGED <<svars, wvars>>
  BY <1>1 DEF svars, hvars, wvars, WriterInv, InBuffer, connected
<1>2. CASE Connecting
  BY <1>2 DEF Connecting, wvars, WriterInv
<1>3. CASE HandshakePeer /\ UNCHANGED wvars
  <2>1. UNCHANGED result
    BY <1>3 DEF HandshakePeer, Arrives, Drops
  <2> QED
    BY <1>3, <2>1 DEF wvars, WriterInv, InBuffer, connected
<1>4. CASE Sending
  <2>0. WriterNext(connected) /\ UNCHANGED result
    BY <1>4 DEF Sending, hvars
  <2>1. ASSUME NEW f \in Outgoing, revoltc_ws_send(f, connected) PROVE WriterInv'
    <3>1. CASE UNCHANGED <<sending, reach, wire>>
      BY <2>0, <3>1 DEF WriterInv, InBuffer, connected
    <3>2. CASE sending' # sending
      <4>1. /\ connected /\ f \in Accepted /\ Len(wire) < MaxSent /\ UNCHANGED wire
            /\ sending' = << Buffered(f) >>
            /\ reach' = Reach(f, Len(HeaderBytes(f)))
        BY <2>1, <3>2 DEF revoltc_ws_send, Accepted, HeaderBytes
      <4> QED
        BY <2>0, <4>1 DEF WriterInv, InBuffer, connected
    <3>3. CASE sending' = sending /\ ~UNCHANGED <<sending, reach, wire>>
      <4>1. sending = <<>> /\ sending' = << Buffered(f) >>
        BY <2>1, <3>3 DEF revoltc_ws_send
      <4> QED
        BY <3>3, <4>1
    <3> QED
      BY <3>1, <3>2, <3>3
  <2>2. CASE SendFails
    BY <2>2 DEF SendFails, WriterInv
  <2>3. CASE ws_send_raw
    <3>1. PICK f \in Accepted : sending = << Buffered(f) >>
      BY <2>3 DEF ws_send_raw, WriterInv, InBuffer
    <3>2. PICK all \in BOOLEAN :
            wire' = Append(wire, [sending[1] EXCEPT !.whole = all])
      BY <2>3 DEF ws_send_raw
    <3>3. [sending[1] EXCEPT !.whole = all] \in Packets
      BY <3>1 DEF Packets
    <3>4. wire' \in Seq(Packets)
      BY <3>2, <3>3 DEF WriterInv
    <3> QED
      BY <2>3, <3>4 DEF ws_send_raw, WriterInv
  <2> QED
    BY <2>0, <2>1, <2>2, <2>3 DEF WriterNext
<1> QED
  BY <1>1, <1>2, <1>3, <1>4 DEF SessionNext, svars

LEMMA WriterInvAlways == Session => []WriterInv
<1>1. WriterInv /\ [SessionNext]_svars => WriterInv'
  BY WriterStep
<1> QED
  BY <1>1, WriterInvInit, PTL DEF Session

-----------------------------------------------------------------------------
(* The mask of a short frame begins with its header and ends 14 bytes behind *)
(* the payload at most (479-483).                                            *)
THEOREM ShortFrameStaysInsideThm == Session => []ShortFrameStaysInside
<1>1. WriterInv => ShortFrameStaysInside
  <2> SUFFICES ASSUME WriterInv, NEW i \in DOMAIN sending, sending[i].frame.len < 126
               PROVE  reach <= 14 + sending[i].frame.len
    BY DEF ShortFrameStaysInside
  <2>1. PICK f \in Accepted : /\ sending = << Buffered(f) >>
                              /\ reach = Reach(f, Len(HeaderBytes(f)))
    BY DEF WriterInv, InBuffer
  <2>2. sending[i].frame = f
    BY <2>1 DEF Buffered
  <2>3. /\ HeaderOf(f) \in Header /\ HeaderOf(f).masked = f.masked /\ HeaderOf(f).len = f.len
        /\ f.len \in Nat
    BY OutgoingHeaders, OutgoingAssumption DEF Accepted
  <2>4. ~ILLEGAL_PAYLOAD_LEN(HeaderOf(f).opcode, HeaderOf(f).len)
    BY DEF Accepted, serialize_header
  <2>5. Len(HeaderBytes(f)) = 2 + Ext(HeaderOf(f)) + KeyLen(HeaderOf(f))
    BY <2>3, <2>4, HeaderParts DEF HeaderBytes
  <2>6. Len(HeaderBytes(f)) = IF f.masked = 1 THEN 6 ELSE 2
    BY <2>2, <2>3, <2>5 DEF Ext, KeyLen
  <2> QED
    BY <2>1, <2>2, <2>3, <2>6 DEF Reach
<1> QED
  BY <1>1, WriterInvAlways, PTL

LEMMA OnTheWire ==
  ASSUME WriterInv, NEW i \in DOMAIN wire
  PROVE  \E f \in Accepted :
           /\ wire[i].frame = f /\ wire[i].header = HeaderBytes(f)
           /\ wire[i].byte = IF f.len > 0 /\ f.masked = 1
                             THEN revoltc_ws_mask(LastFour(HeaderBytes(f)),
                                                  Len(HeaderBytes(f)), f.index, f.byte)
                             ELSE f.byte
<1>1. wire[i] \in Packets
  BY DEF WriterInv
<1>2. PICK f \in Accepted, all \in BOOLEAN : wire[i] = [Buffered(f) EXCEPT !.whole = all]
  BY <1>1 DEF Packets
<1> QED
  BY <1>2, BufferedFields

(* Of the headers sent no part is taken for a whole one, whatever the frames *)
(* and the limit on the payload, but for the first two bytes of a short      *)
(* masked header (694-762).                                                  *)
THEOREM PartIsInsufficientThm == Session => []PartIsInsufficient
<1>1. WriterInv => PartIsInsufficient
  <2> SUFFICES ASSUME WriterInv, NEW i \in DOMAIN wire,
                      NEW n \in 0 .. Len(wire[i].header) - 1
               PROVE  \/ deserialize_header(SubSeq(wire[i].header, 1, n)).result
                           = "INSUFFICIENT_DATA"
                      \/ n = 2 /\ wire[i].frame.masked = 1 /\ wire[i].frame.len < 126
    BY DEF PartIsInsufficient
  <2>1. PICK f \in Accepted : wire[i].frame = f /\ wire[i].header = HeaderBytes(f)
    BY OnTheWire
  <2>2. /\ HeaderOf(f) \in Header /\ HeaderOf(f).masked = f.masked /\ HeaderOf(f).len = f.len
    BY OutgoingHeaders DEF Accepted
  <2>3. serialize_header(HeaderOf(f)).result = "OK"
    BY DEF Accepted
  <2>4. PICK h, s : h = HeaderOf(f) /\ s = HeaderBytes(f)
    OBVIOUS
  <2>5. /\ h \in Header /\ s = serialize_header(h).bytes
        /\ serialize_header(h).result = "OK" /\ n \in 0 .. Len(s) - 1
    BY <2>1, <2>2, <2>3, <2>4 DEF HeaderBytes
  <2>6. \/ deserialize_header(SubSeq(s, 1, n)).result = "INSUFFICIENT_DATA"
        \/ n = 2 /\ h.masked = 1 /\ h.len < 126
    BY <2>5, PartsAreInsufficient
  <2> QED
    BY <2>1, <2>2, <2>4, <2>6
<1> QED
  BY <1>1, WriterInvAlways, PTL

(* The last four bytes of a masked header are the key.                       *)
LEMMA KeyIsLast ==
  ASSUME NEW h \in Header, h.masked = 1, ~ILLEGAL_PAYLOAD_LEN(h.opcode, h.len),
         NEW s, s = serialize_header(h).bytes, NEW j \in 1 .. 4
  PROVE  /\ LastFour(s)[j] = u32_bytes_be(h.key)[j]
         /\ u32_bytes_be(h.key)[j] \in Byte
<1> DEFINE a == << FirstOf(h) >>
           l == LengthBytes(h)
           k == u32_bytes_be(h.key)
           al == a \o l
<1>1. s = al \o k
  BY DEF serialize_header, FirstOf
<1>2. a \in Seq(Byte)
  <2>1. FirstOf(h) \in Byte
    BY HeaderFields, FirstByte DEF FirstOf
  <2> QED
    BY <2>1
<1>3. l \in Seq(Byte)
  <2>1. h.len \in Nat /\ h.len <= PayloadMax
    BY HeaderFields, PayloadMaxAssumption DEF ILLEGAL_PAYLOAD_LEN
  <2> QED
    BY <2>1, LegalIsBelow63, LengthPart
<1>4. k \in Seq(Byte) /\ Len(k) = 4
  BY HeaderFields, U32
<1> HIDE DEF a, l, k
<1>5. al \in Seq(Byte)
  BY <1>2, <1>3, JoinedLen
<1> HIDE DEF al
<1>6. /\ s \in Seq(Byte) /\ Len(s) = Len(al) + 4 /\ s[Len(al) + j] = k[j]
      /\ Len(al) \in Nat
  <2>1. al \o k \in Seq(Byte) /\ Len(al \o k) = Len(al) + Len(k)
    BY <1>4, <1>5, JoinedLen
  <2>2. j \in 1 .. Len(k)
    BY <1>4
  <2>3. (al \o k)[Len(al) + j] = k[j]
    BY <1>4, <1>5, <2>2, Joined
  <2> QED
    BY <1>1, <1>4, <1>5, <2>1, <2>3
<1>7. LastFour(s)[j] = s[Len(al) + j]
  <2>1. /\ Len(s) - 3 = Len(al) + 1 /\ Len(al) + 1 + j - 1 = Len(al) + j
        /\ j \in 1 .. Len(s) - (Len(al) + 1) + 1
    BY <1>6
  <2>2. LastFour(s) = SubSeq(s, Len(al) + 1, Len(s))
    BY <2>1 DEF LastFour
  <2>3. SubSeq(s, Len(al) + 1, Len(s))[j] = s[Len(al) + 1 + j - 1]
    BY <1>6, <2>1
  <2> QED
    BY <2>1, <2>2, <2>3
<1>8. k[j] \in Byte
  BY <1>4, ElementOfSeq
<1> QED
  BY <1>6, <1>7, <1>8 DEF k

(* A frame that was sent whole is decoded to the header and the payload the  *)
(* caller asked for: any opcode, key, length and index (280-293, 398-498).   *)
THEOREM PeerReadsFrameThm == Session => []PeerReadsFrame
<1>1. WriterInv => PeerReadsFrame
  <2> SUFFICES ASSUME WriterInv, NEW i \in DOMAIN wire, wire[i].whole, NEW f, NEW d, NEW key,
                      f = wire[i].frame, d = deserialize_header(wire[i].header),
                      key = u32_bytes_be(d.header.key)
               PROVE  /\ d.result = "OK" /\ d.header_len = Len(wire[i].header)
                      /\ d.header = IF f.masked = 1 THEN HeaderOf(f)
                                    ELSE [HeaderOf(f) EXCEPT !.key = d.header.key]
                      /\ f.len > 0 =>
                           f.byte = IF f.masked = 1
                                    THEN Xor(wire[i].byte, key[(f.index % 4) + 1])
                                    ELSE wire[i].byte
    BY DEF PeerReadsFrame
  <2>1. /\ f \in Accepted /\ wire[i].header = HeaderBytes(f)
        /\ wire[i].byte = IF f.len > 0 /\ f.masked = 1
                          THEN revoltc_ws_mask(LastFour(HeaderBytes(f)),
                                               Len(HeaderBytes(f)), f.index, f.byte)
                          ELSE f.byte
    BY OnTheWire
  <2>2. f \in Outgoing /\ serialize_header(HeaderOf(f)).result = "OK"
    BY <2>1 DEF Accepted
  <2>3. /\ HeaderOf(f) \in Header /\ HeaderOf(f).masked = f.masked
        /\ HeaderOf(f).key = f.key
    BY <2>2, OutgoingHeaders
  <2>4. /\ d.result = "OK" /\ d.header_len = Len(wire[i].header)
        /\ d.header = IF f.masked = 1 THEN HeaderOf(f)
                      ELSE [HeaderOf(f) EXCEPT !.key = d.header.key]
    BY <2>1, <2>2, <2>3, DecodesWhatWasEncoded DEF HeaderBytes, WithKey
  <2>5. ASSUME f.len > 0, f.masked = 1
        PROVE  f.byte = Xor(wire[i].byte, key[(f.index % 4) + 1])
    <3>1. PICK j : j = (f.index % 4) + 1
      OBVIOUS
    <3>2. j \in 1 .. 4 /\ f.byte \in Byte
      BY <2>2, <3>1, OutgoingAssumption
    <3>3. PICK h, s : h = HeaderOf(f) /\ s = HeaderBytes(f)
      OBVIOUS
    <3>4. /\ h \in Header /\ h.masked = 1 /\ ~ILLEGAL_PAYLOAD_LEN(h.opcode, h.len)
          /\ s = serialize_header(h).bytes
      BY <2>2, <2>3, <2>5, <3>3 DEF serialize_header, HeaderBytes
    <3>5. /\ LastFour(s)[j] = u32_bytes_be(h.key)[j]
          /\ u32_bytes_be(h.key)[j] \in Byte
      BY <3>2, <3>4, KeyIsLast
    <3>6. key = u32_bytes_be(h.key)
      BY <2>4, <2>5, <3>3
    <3>7. wire[i].byte = Xor(f.byte, key[j])
      BY <2>1, <2>5, <3>1, <3>3, <3>5, <3>6 DEF revoltc_ws_mask
    <3>8. Xor(Xor(f.byte, key[j]), key[j]) = f.byte
      BY <3>2, <3>5, <3>6, XorTwice
    <3> QED
      BY <3>1, <3>7, <3>8
  <2>6. ASSUME f.len > 0, f.masked # 1 PROVE f.byte = wire[i].byte
    BY <2>1, <2>6
  <2> QED
    BY <2>4, <2>5, <2>6
<1> QED
  BY <1>1, WriterInvAlways, PTL
-----------------------------------------------------------------------------
(* What Websocket sees of a session.                                         *)
Handle == IF Attempted THEN conn ELSE NULL
States == [h \in {conn} |-> IF ~Attempted THEN "unused" ELSE IF connected THEN "up" ELSE "raw"]
Packed(e) == [op |-> OpcodeName(e.frame.opcode), data |-> e.frame, whole |-> e.whole]
Written == [i \in DOMAIN wire |-> Packed(wire[i])]

(* A call that is in progress, or that has not been made, has no result.     *)
ReturnInv == at = "done" <=> result # "NONE"

Failures == {"NOMEM", "TIMEOUT", "SEND", "DISCONNECT", "PARSE"}

(* What a step of revoltc_ws_connect shows: nothing, or that it returns.     *)
LEMMA ConnectStep ==
  ASSUME ReturnInv, revoltc_ws_connect
  PROVE  /\ at # "done" /\ result = "NONE"
         /\ \/ at' # "done" /\ result' = "NONE"
            \/ at' = "done" /\ result' \in {"OK", "CURL_INIT", "CURL"} \cup Failures
<1>1. CASE Connect
  <2>1. \/ \E r \in {"CURL_INIT", "CURL"} : Return(r)
        \/ ws_handshake_send
    BY <1>1 DEF Connect
  <2>2. \/ \E r \in {"CURL_INIT", "CURL", "NOMEM", "TIMEOUT", "SEND"} : Return(r)
        \/ at' = "alloc" /\ UNCHANGED result
    BY <2>1 DEF ws_handshake_send
  <2>3. at = "idle" /\ result = "NONE"
    BY <1>1 DEF Connect, ReturnInv
  <2> QED
    BY <2>2, <2>3 DEF Return, Failures
<1>2. CASE Allocate
  BY <1>2 DEF Allocate, Return, ReturnInv, Failures
<1>3. CASE CannotGrow
  BY <1>3 DEF CannotGrow, Return, ReturnInv, Failures
<1>4. CASE RecvFails
  BY <1>4 DEF RecvFails, Return, ReturnInv, Failures
<1>5. CASE Recv
  BY <1>5 DEF Recv, ReturnInv
<1>6. CASE Check
  BY <1>6 DEF Check, Return, ReturnInv, Failures
<1> QED
  BY <1>1, <1>2, <1>3, <1>4, <1>5, <1>6 DEF revoltc_ws_connect

LEMMA ReturnStep ==
  ASSUME ReturnInv, [SessionNext]_svars
  PROVE  ReturnInv'
<1>1. CASE UNCHANGED svars
  BY <1>1 DEF svars, hvars, ReturnInv
<1>2. CASE Connecting
  BY <1>2, ConnectStep DEF Connecting, ReturnInv, Failures
<1>3. CASE HandshakePeer
  BY <1>3 DEF HandshakePeer, Arrives, Drops, ReturnInv
<1>4. CASE Sending
  BY <1>4 DEF Sending, hvars, ReturnInv
<1> QED
  BY <1>1, <1>2, <1>3, <1>4 DEF SessionNext

LEMMA NothingSeen ==
  ASSUME UNCHANGED <<at, result, wire>>
  PROVE  UNCHANGED Frames!wsvars
<1>1. UNCHANGED <<Handle, States, Written, connected>>
  BY DEF Handle, States, Written, Attempted, connected
<1> QED
  BY <1>1 DEF Frames!wsvars, Handle, States, Written, Packed

(* The call returns: Websocket takes its step.                               *)
LEMMA ConnectSeen ==
  ASSUME ReturnInv, Connecting
  PROVE  \/ UNCHANGED Frames!wsvars
         \/ Frames!revoltc_ws_connect(IF result' \in Failures THEN "HANDSHAKE" ELSE result')
<1>1. UNCHANGED wire
  BY DEF Connecting, wvars
<1>2. /\ at # "done" /\ result = "NONE"
      /\ \/ at' # "done" /\ result' = "NONE"
         \/ at' = "done" /\ result' \in {"OK", "CURL_INIT", "CURL"} \cup Failures
  BY ConnectStep DEF Connecting
<1>3. ~Attempted /\ ~connected /\ Handle = NULL /\ States = [h \in {conn} |-> "unused"]
  BY <1>2 DEF Attempted, connected, Handle, States
<1>4. CASE at' # "done"
  <2>1. ~Attempted' /\ ~connected'
    BY <1>2, <1>4 DEF Attempted, connected
  <2>2. UNCHANGED <<Handle, States, Written, connected>>
    <3>1. Handle' = NULL /\ States' = [h \in {conn} |-> "unused"]
      BY <2>1 DEF Handle, States
    <3>2. connected' = connected
      BY <1>2, <1>4 DEF connected
    <3>3. Written' = Written
      BY <1>1 DEF Written
    <3> QED
      BY <1>3, <3>1, <3>2, <3>3
  <2>3. UNCHANGED Frames!wsvars
    BY <2>2 DEF Frames!wsvars, Handle, States, Written, Packed
  <2> QED
    BY <2>3
<1>5. CASE at' = "done"
  <2>1. PICK r : r = IF result' \in Failures THEN "HANDSHAKE" ELSE result'
    OBVIOUS
  <2>2. r \in {"OK", "CURL_INIT", "CURL", "HANDSHAKE"} /\ (r = "OK" <=> connected')
        /\ (r = "CURL_INIT" <=> ~Attempted')
    BY <1>2, <1>5, <2>1 DEF Failures, connected, Attempted
  <2>3. UNCHANGED Written
    BY <1>1 DEF Written
  <2>4. CASE r = "CURL_INIT"
    <3>1. ~Attempted' /\ Handle' = NULL /\ States' = [h \in {conn} |-> "unused"]
      BY <2>2, <2>4 DEF Handle, States
    <3>2. connected' = connected
      BY <1>2, <1>5, <2>1, <2>4 DEF connected, Failures
    <3>3. Handle' = NULL /\ UNCHANGED <<connected, States>>
      BY <1>3, <3>1, <3>2
    <3>4. Frames!revoltc_ws_connect(r)
      BY <1>3, <2>3, <2>4, <3>3
         DEF Frames!revoltc_ws_connect, Frames!peervars, Handle, States, Written, Packed
    <3> QED
      BY <2>1, <3>4
  <2>5. CASE r # "CURL_INIT"
    <3>1. Attempted' /\ Handle' = conn
          /\ States' = [h \in {conn} |-> IF r = "OK" THEN "up" ELSE "raw"]
          /\ connected' = (r = "OK")
      BY <2>2, <2>5 DEF Handle, States, connected
    <3>2. States' = [States EXCEPT ![conn] = IF r = "OK" THEN "up" ELSE "raw"]
          /\ States[conn] = "unused"
      BY <1>3, <3>1
    <3>3. Frames!revoltc_ws_connect(r)
      BY <1>3, <2>2, <2>3, <2>5, <3>1, <3>2
         DEF Frames!revoltc_ws_connect, Frames!peervars, Handle, States, Written, Packed
    <3> QED
      BY <2>1, <3>3
  <2> QED
    BY <2>4, <2>5
<1> QED
  BY <1>4, <1>5

(* Both modules refuse the same frames.                                      *)
LEMMA SameRefused ==
  ASSUME NEW f \in Outgoing
  PROVE  Frames!TooLong(AsFrame(f)) <=> serialize_header(HeaderOf(f)).result = "PARSE"
<1>1. f.opcode \in {0, 1, 2, 9, 10} /\ f.len \in Nat /\ ~(f.len > PayloadMax)
  <2>1. f.opcode \in {0, 1, 2, 9, 10} /\ f.len <= PayloadMax /\ f.len \in Nat
    BY CallersFrames, OutgoingAssumption
  <2> QED
    BY <2>1, PayloadMaxAssumption
<1>2. OpcodeName(f.opcode) \in {"CLOSE", "PING", "PONG"} <=> f.opcode \in {8, 9, 10}
  BY <1>1 DEF OpcodeName
<1>3. Frames!TooLong(AsFrame(f)) <=> f.opcode \in {8, 9, 10} /\ f.len > 125
  BY <1>2 DEF Frames!TooLong, Frames!Control, AsFrame
<1>4. ILLEGAL_PAYLOAD_LEN(HeaderOf(f).opcode, HeaderOf(f).len)
        <=> f.opcode \in {8, 9, 10} /\ f.len > 125
  BY <1>1 DEF ILLEGAL_PAYLOAD_LEN, ControlOpcodes, HeaderOf
<1> QED
  BY <1>3, <1>4 DEF serialize_header

(* A call of revoltc_ws_send that returns shows as one of Websocket.         *)
LEMMA SendSeen ==
  ASSUME WriterInv, ReturnInv, Sending
  PROVE  \/ UNCHANGED Frames!wsvars
         \/ \E f \in Outgoing :
              /\ sent'.frame \in {f, NoFrame}
              /\ Frames!revoltc_ws_send(AsFrame(f), sent'.result)
<1>1. WriterNext(connected) /\ UNCHANGED <<at, result>>
  BY DEF Sending, hvars
<1>2. UNCHANGED <<Handle, States, connected>>
  BY <1>1 DEF Handle, States, Attempted, connected
<1>3. connected => Handle = conn
  BY DEF connected, Handle, Attempted, ReturnInv
<1>4. ASSUME NEW f \in Outgoing, revoltc_ws_send(f, connected)
      PROVE  \/ UNCHANGED Frames!wsvars
             \/ \E g \in Outgoing :
                  /\ sent'.frame \in {g, NoFrame}
                  /\ Frames!revoltc_ws_send(AsFrame(g), sent'.result)
  <2>1. UNCHANGED wire
    BY <1>4 DEF revoltc_ws_send
  <2>2. UNCHANGED Written
    BY <2>1 DEF Written
  <2>3. CASE \/ ~connected /\ SendReturns(NoFrame, "NOT_CONNECTED")
             \/ connected /\ NoMemory /\ SendReturns(NoFrame, "NOMEM")
             \/ connected /\ serialize_header(HeaderOf(f)).result = "PARSE"
                /\ SendReturns(f, "PARSE")
    <3>1. PICK r : r = sent'.result
      OBVIOUS
    <3>2. sent'.frame \in {f, NoFrame}
      BY <2>3 DEF SendReturns
    <3>3. \/ ~connected /\ r = "NOT_CONNECTED"
          \/ connected /\ AllocMayFail /\ r = "NOMEM"
          \/ connected /\ Frames!TooLong(AsFrame(f)) /\ r = "PARSE"
      BY <2>3, <3>1, SameRefused, OneAllocator DEF SendReturns
    <3>4. Frames!revoltc_ws_send(AsFrame(f), r)
      BY <1>2, <2>2, <3>3
         DEF Frames!revoltc_ws_send, Frames!peervars, Handle, States, Written, Packed
    <3> QED
      BY <3>1, <3>2, <3>4
  <2>4. CASE sending' = << Buffered(f) >>
    BY <1>1, <2>1, NothingSeen
  <2> QED
    BY <1>4, <2>3, <2>4 DEF revoltc_ws_send
<1>5. ASSUME NEW f \in Accepted, sending = << Buffered(f) >>, connected, Len(wire) < MaxSent,
             SendFails \/ ws_send_raw
      PROVE  /\ sent'.frame \in {f, NoFrame}
             /\ Frames!revoltc_ws_send(AsFrame(f), sent'.result)
  <2>1. f \in Outgoing /\ ~Frames!TooLong(AsFrame(f)) /\ sending[1].frame = f
        /\ sending[1].whole = FALSE
    <3>1. f \in Outgoing /\ serialize_header(HeaderOf(f)).result = "OK"
      BY DEF Accepted
    <3> QED
      BY <1>5, <3>1, SameRefused DEF Buffered
  <2>2. PICK r : r = sent'.result
    OBVIOUS
  <2>3. wire \in Seq(Packets) /\ Len(wire) \in Nat
    BY DEF WriterInv
  <2>4. Handle = conn /\ Len(Written) = Len(wire)
    BY <1>3, <1>5, <2>3 DEF Written
  <2>5. CASE SendFails
    <3>1. r \in {"TIMEOUT", "CURL"} /\ sent'.frame = f /\ UNCHANGED wire
      BY <2>1, <2>2, <2>5 DEF SendFails, SendReturns
    <3>2. UNCHANGED Written
      BY <3>1 DEF Written
    <3>3. Frames!revoltc_ws_send(AsFrame(f), r)
      BY <1>2, <1>5, <2>1, <2>4, <3>1, <3>2
         DEF Frames!revoltc_ws_send, Frames!ws_send_raw, Frames!peervars,
             Handle, States, Written, Packed
    <3> QED
      BY <2>2, <3>1, <3>3
  <2>6. CASE ws_send_raw
    <3>1. PICK all, e :
            /\ all \in BOOLEAN
            /\ e = [sending[1] EXCEPT !.whole = all] /\ wire' = Append(wire, e)
            /\ r = (IF all THEN "OK" ELSE "SEND") /\ sent'.frame = f
      BY <2>1, <2>2, <2>6 DEF ws_send_raw, SendReturns
    <3>2. e.frame = f /\ e.whole = all
      BY <1>5, <3>1 DEF Buffered
    <3>3. Written' = Append(Written, Packed(e))
      <4>1. Len(wire') = Len(wire) + 1 /\ wire'[Len(wire) + 1] = e
            /\ \A i \in 1 .. Len(wire) : wire'[i] = wire[i]
        BY <2>3, <3>1
      <4> QED
        BY <2>3, <3>1, <4>1 DEF Written
    <3>4. Packed(e) = [op |-> AsFrame(f).op, data |-> AsFrame(f).data, whole |-> all]
      BY <3>2 DEF Packed, AsFrame
    <3>5. [h \in {conn} |-> Written'] =
            [[h \in {conn} |-> Written] EXCEPT ![conn] = Append(@, Packed(e))]
      BY <3>3
    <3>6. Frames!ws_send_raw(AsFrame(f), r)
      <4>1. Frames!Written(AsFrame(f), all) = [h \in {conn} |-> Written']
        BY <2>4, <3>4, <3>5 DEF Frames!Written, Handle, Written, Packed
      <4> QED
        BY <3>1, <4>1 DEF Frames!ws_send_raw, Written, Packed
    <3>7. Frames!revoltc_ws_send(AsFrame(f), r)
      BY <1>2, <1>5, <2>1, <2>4, <3>6
         DEF Frames!revoltc_ws_send, Frames!peervars, Handle, States, Written, Packed
    <3> QED
      BY <2>2, <3>1, <3>7
  <2> QED
    BY <1>5, <2>5, <2>6
<1>6. CASE SendFails \/ ws_send_raw
  <2>1. sending # <<>>
    BY <1>6 DEF SendFails, ws_send_raw
  <2>2. PICK f \in Accepted : sending = << Buffered(f) >> /\ connected /\ Len(wire) < MaxSent
    BY <2>1 DEF WriterInv, InBuffer
  <2>3. f \in Outgoing
    BY DEF Accepted
  <2> QED
    BY <1>5, <1>6, <2>2, <2>3
<1> QED
  BY <1>1, <1>4, <1>6 DEF WriterNext

(* When a call returns, connect or send of Websocket has been done, and      *)
(* nothing is seen of it before (322-350, 455-498): for all answers, frames  *)
(* and failures.                                                             *)
THEOREM ImplementsWebsocketThm == Session => ImplementsWebsocket
<1> DEFINE Step ==
      \/ UNCHANGED Frames!wsvars
      \/ Frames!revoltc_ws_connect(IF result' \in {"NOMEM", "TIMEOUT", "SEND",
                                                   "DISCONNECT", "PARSE"}
                                   THEN "HANDSHAKE" ELSE result')
      \/ \E f \in Outgoing :
           /\ sent'.frame \in {f, NoFrame}
           /\ Frames!revoltc_ws_send(AsFrame(f), sent'.result)
<1>1. SessionInit => ReturnInv
  BY DEF SessionInit, Init, ReturnInv
<1>2. ReturnInv /\ [SessionNext]_svars => ReturnInv'
  BY ReturnStep
<1>3. ASSUME WriterInv, ReturnInv, SessionNext PROVE Step
  <2>1. CASE Connecting
    BY <1>3, <2>1, ConnectSeen, Zenon DEF Failures
  <2>2. CASE Sending
    BY <1>3, <2>2, SendSeen, Zenon
  <2>3. CASE HandshakePeer /\ UNCHANGED wvars
    <3>1. UNCHANGED <<at, result, wire>>
      BY <2>3 DEF HandshakePeer, Arrives, Drops, wvars
    <3> QED
      BY <3>1, NothingSeen, Zenon
  <2> QED
    BY <1>3, <2>1, <2>2, <2>3, Zenon DEF SessionNext
<1>4. WriterInv /\ ReturnInv /\ [SessionNext]_svars => [Step]_svars
  BY <1>3
<1>5. Session => [][Step]_svars
  BY <1>1, <1>2, <1>4, WriterInvAlways, PTL DEF Session
<1> QED
  BY <1>5 DEF ImplementsWebsocket
=============================================================================
