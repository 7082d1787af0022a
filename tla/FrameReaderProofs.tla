-------------------------- MODULE FrameReaderProofs --------------------------
(***************************************************************************)
(* For a frame whose header arrives in one part the reader is exact, for   *)
(* any frames, lengths and order of arrival.  The argument is that the     *)
(* bytes it asks for never reach beyond what it knows of the frame:        *)
(*   - without the header it asks for two bytes more than it has, and a    *)
(*     header has an even number of them (Asking, first part);             *)
(*   - with it, for the rest of the frame (Asking, second part).           *)
(***************************************************************************)
EXTENDS FrameReaderProps, TLAPS

Record == [frame : Replies, end : Nat, split : BOOLEAN]

LEMMA AppendFacts ==
  ASSUME NEW S, NEW s \in Seq(S), NEW e \in S
  PROVE  /\ Append(s, e) \in Seq(S)
         /\ Len(s) \in Nat /\ Len(Append(s, e)) = Len(s) + 1
         /\ \A i \in 1 .. Len(s) : Append(s, e)[i] = s[i]
         /\ Append(s, e)[Len(s) + 1] = e
  OBVIOUS

LEMMA LenNat == ASSUME NEW S, NEW s \in Seq(S) PROVE Len(s) \in Nat
  OBVIOUS

LEMMA ElementOf ==
  ASSUME NEW S, NEW s \in Seq(S), NEW i \in 1 .. Len(s) PROVE s[i] \in S
  OBVIOUS

LEMMA SizeFacts ==
  ASSUME NEW f \in Replies
  PROVE  /\ HeaderLen[f] \in {2, 4, 10} /\ PayloadLen[f] \in Nat
         /\ Size(f) \in Nat /\ HeaderLen[f] <= Size(f)
         /\ Size(f) = HeaderLen[f] + PayloadLen[f]
<1>1. HeaderLen[f] \in {2, 4, 10} /\ PayloadLen[f] \in Nat
  BY LengthsAssumption
<1> QED
  BY <1>1 DEF Size

LEMMA LeastFacts ==
  ASSUME NEW a \in Int, NEW b \in Int
  PROVE  Least(a, b) \in {a, b} /\ Least(a, b) <= a /\ Least(a, b) <= b
  BY DEF Least

(* Where frames end; the peer is in the middle of the last one at most.      *)
Stream ==
  /\ \A i \in 0 .. Len(out) : End(i) \in Nat
  /\ \A i, j \in 0 .. Len(out) : i < j => End(i) < End(j)
  /\ \A i \in 1 .. Len(out) :
       /\ End(i) = End(i - 1) + Size(out[i].frame)
       /\ ~out[i].split => End(i - 1) + HeaderLen[out[i].frame] <= sent
  /\ sent <= End(Len(out))

Bounds ==
  /\ start <= taken /\ taken <= sent
  /\ reading => taken - start < needed
  /\ reading /\ ~insync => guess \in Replies

(* The reader has lost the connection, or has read all there will be.        *)
Over == link = "reset" \/ (link = "closed" /\ taken = sent)

Asking ==
  LET f == out[pos + 1].frame
      n == taken - start
  IN \/ n = 0 /\ needed = 2
     \/ /\ pos < Len(out)
        /\ \/ n \in {2, 4, 6, 8} /\ n < HeaderLen[f] /\ needed = n + 2
           \/ HeaderLen[f] <= n /\ n < Size(f) /\ needed = Size(f)

InStep ==
  insync /\ ~Over =>
    IF reading THEN start = End(pos) /\ (HeaderWhole => Asking)
    ELSE taken = End(pos)

Exact == TypeOK /\ Stream /\ Bounds /\ InStep

-----------------------------------------------------------------------------
(* What one more read brings: never a byte more than was asked for, and,     *)
(* while the reader is in step, bytes of the frame it has begun.             *)
LEMMA ReadFacts ==
  ASSUME Exact, reading
  PROVE  /\ Received \in Nat /\ Offset \in Nat /\ nrecv \in Nat
         /\ Offset = taken + Received /\ nrecv = Offset - start
         /\ Offset <= sent /\ nrecv <= needed
         /\ Received = needed - (taken - start) \/ Received = sent - taken
<1> USE DEF Exact, TypeOK, Bounds
<1>1. needed - (taken - start) \in Nat /\ sent - taken \in Nat
  OBVIOUS
<1>2. /\ Received \in {needed - (taken - start), sent - taken}
      /\ Received <= needed - (taken - start)
      /\ Received <= sent - taken
  BY <1>1, LeastFacts DEF Received
<1> QED
  BY <1>1, <1>2 DEF Offset, nrecv

LEMMA SeenFacts ==
  ASSUME Exact, Receives
  PROVE  /\ Seen \in Replies
         /\ insync => /\ pos + 1 \in 1 .. Len(out) /\ Seen = out[pos + 1].frame
                      /\ start = End(pos)
                      /\ End(pos + 1) = End(pos) + Size(Seen)
<1> USE DEF Exact
<1>1. reading /\ nrecv > 0
  BY DEF Receives
<1>2. CASE ~insync
  BY <1>1, <1>2 DEF Bounds, Seen
<1>3. CASE insync
  <2>1. ~Over
    <3>1. CASE link = "closed" /\ taken = sent
      <4>1. Received = 0
        BY <1>1, <3>1, ReadFacts DEF TypeOK
      <4> QED
        BY <3>1, <4>1 DEF Receives
    <3> QED
      BY <3>1 DEF Over, Receives
  <2>2. start = End(pos)
    BY <1>1, <1>3, <2>1 DEF InStep
  <2>3. pos \in 0 .. Len(out) /\ Len(out) \in Nat
    BY DEF TypeOK
  <2>4. End(pos) < End(Len(out))
    <3>1. End(pos) \in Nat /\ End(Len(out)) \in Nat /\ sent <= End(Len(out))
      BY <2>3 DEF Stream
    <3>2. sent \in Nat
      BY DEF TypeOK
    <3> QED
      BY <1>1, <2>2, <3>1, <3>2, ReadFacts
  <2>5. pos + 1 \in 1 .. Len(out)
    BY <2>3, <2>4 DEF Stream
  <2>6. out[pos + 1] \in Record
    BY <2>5, ElementOf DEF TypeOK, Record
  <2>7. out[pos + 1].frame \in Replies
    BY <2>6 DEF Record
  <2>8. End(pos + 1) = End(pos) + Size(out[pos + 1].frame)
    <3>1. (pos + 1) - 1 = pos
      BY <2>3
    <3> QED
      BY <2>5, <3>1 DEF Stream
  <2> QED
    BY <1>3, <2>2, <2>5, <2>7, <2>8 DEF Seen
<1> QED
  BY <1>2, <1>3

(* The bytes of a call in step: an even part of the header, exactly as many  *)
(* as were asked for, or a part of the payload.                              *)
LEMMA ExactFacts ==
  ASSUME Exact, Receives, insync, HeaderWhole
  PROVE  \/ nrecv \in {2, 4, 6, 8, 10} /\ nrecv <= HeaderLen[Seen] /\ nrecv = needed
         \/ HeaderLen[Seen] <= nrecv /\ nrecv <= Size(Seen) /\ needed = Size(Seen)
<1> USE DEF Exact
<1>1. reading /\ nrecv > 0
  BY DEF Receives
<1>2. ~Over
  <2>1. CASE link = "closed" /\ taken = sent
    <3>1. Received = 0
      BY <1>1, <2>1, ReadFacts DEF TypeOK
    <3> QED
      BY <2>1, <3>1 DEF Receives
  <2> QED
    BY <2>1 DEF Over, Receives
<1>3. Asking /\ start = End(pos)
  BY <1>1, <1>2 DEF InStep
<1>4. End(pos) + HeaderLen[Seen] <= sent
  <2>1. (pos + 1) - 1 = pos
    BY DEF TypeOK
  <2>2. pos + 1 \in 1 .. Len(out) /\ pos < Len(out)
    BY SeenFacts, LenNat DEF TypeOK
  <2>3. ~out[pos + 1].split
    BY <2>2 DEF HeaderWhole
  <2> QED
    BY <2>1, <2>2, <2>3, SeenFacts DEF Stream
<1> DEFINE n == taken - start
           H == HeaderLen[Seen]
<1>5. H \in {2, 4, 10} /\ Size(Seen) \in Nat /\ H <= Size(Seen)
  BY SeenFacts, SizeFacts
<1>6. n \in Nat /\ taken \in Nat /\ sent \in Nat /\ start \in Nat /\ needed \in Nat
  BY DEF TypeOK, Bounds
<1>7. \/ n \in {0, 2, 4, 6, 8} /\ n < H /\ needed = n + 2
      \/ H <= n /\ n < Size(Seen) /\ needed = Size(Seen)
  <2>1. Seen = out[pos + 1].frame
    BY SeenFacts
  <2> QED
    BY <1>3, <1>5, <2>1 DEF Asking
<1>8. nrecv = n + Received
  BY <1>1, <1>6, ReadFacts
<1>9. CASE n \in {0, 2, 4, 6, 8} /\ n < H /\ needed = n + 2
  <2>1. n + 2 <= H
    BY <1>5, <1>9
  <2>2. sent - taken >= 2
    BY <1>3, <1>4, <1>5, <1>6, <2>1
  <2>3. Received = 2
    <3>1. needed - n = 2
      BY <1>6, <1>9
    <3> QED
      BY <1>6, <2>2, <3>1, LeastFacts DEF Received, Least
  <2> QED
    BY <1>5, <1>6, <1>8, <1>9, <2>1, <2>3
<1>10. CASE H <= n /\ n < Size(Seen) /\ needed = Size(Seen)
  BY <1>1, <1>5, <1>6, <1>8, <1>10, ReadFacts
<1> QED
  BY <1>7, <1>9, <1>10

-----------------------------------------------------------------------------
LEMMA ExactInit == Init => Exact
<1> SUFFICES ASSUME Init PROVE Exact
  OBVIOUS
<1>1. TypeOK
  <2>1. out \in Seq([frame : Replies, end : Nat, split : BOOLEAN]) /\ Len(out) = 0
    BY DEF Init
  <2>2. pos \in 0 .. Len(out) /\ guess = Nothing /\ got.frame = Nothing
    BY <2>1 DEF Init
  <2> QED
    BY <2>1, <2>2 DEF Init, TypeOK
<1>2. Stream
  <2>1. Len(out) = 0
    BY DEF Init
  <2> QED
    BY <2>1 DEF Init, Stream, End
<1>3. Bounds /\ InStep
  BY DEF Init, Bounds, InStep, End
<1> QED
  BY <1>1, <1>2, <1>3 DEF Exact

LEMMA PeerBeginsExact == ASSUME Exact, PeerBegins PROVE Exact'
<1> USE DEF Exact
<1>1. PICK f \in Replies : \E c \in 1 .. Size(f) :
        /\ c < HeaderLen[f] => SplitHeaders
        /\ out' = Append(out, [frame |-> f, end |-> sent + Size(f),
                               split |-> c < HeaderLen[f]])
        /\ sent' = sent + c
  BY DEF PeerBegins
<1>2. PICK c \in 1 .. Size(f) :
        /\ c < HeaderLen[f] => SplitHeaders
        /\ out' = Append(out, [frame |-> f, end |-> sent + Size(f),
                               split |-> c < HeaderLen[f]])
        /\ sent' = sent + c
  BY <1>1
<1> DEFINE e == [frame |-> f, end |-> sent + Size(f), split |-> c < HeaderLen[f]]
<1>a. PICK L \in Nat : L = Len(out)   \* a number: L is not primed with out
  BY LenNat DEF TypeOK
<1>3. /\ Size(f) \in Nat /\ HeaderLen[f] \in Nat /\ sent \in Nat
      /\ c \in Nat /\ c > 0 /\ c <= Size(f)
  <2>1. Size(f) \in Nat /\ HeaderLen[f] \in {2, 4, 10}
    BY SizeFacts
  <2>2. sent \in Nat
    BY DEF TypeOK
  <2> QED
    BY <2>1, <2>2
<1>4. e \in Record /\ out \in Seq(Record)
  BY <1>3 DEF Record, TypeOK
<1>5. /\ out' \in Seq(Record)
      /\ L \in Nat /\ Len(out') = L + 1
      /\ \A i \in 1 .. L : out'[i] = out[i]
      /\ out'[L + 1] = e
  BY <1>a, <1>2, <1>4, AppendFacts
<1>6. UNCHANGED <<link, reading, start, taken, needed, guess, pos, insync, got>>
  BY DEF PeerBegins, reader
<1>7. TypeOK'
  <2>1. sent' \in Nat
    BY <1>2, <1>3
  <2>2. pos' \in 0 .. Len(out')
    BY <1>a, <1>5, <1>6 DEF TypeOK
  <2> QED
    BY <1>a, <1>5, <1>6, <2>1, <2>2 DEF TypeOK, Record
<1>8. /\ \A i \in 0 .. L : End(i)' = End(i)
      /\ End(L + 1)' = sent + Size(f)
  <2>1. \A i \in 1 .. L : out'[i].end = out[i].end
    BY <1>a, <1>5
  <2>2. \A i \in 0 .. L : i = 0 \/ i \in 1 .. L
    BY <1>a, <1>5
  <2>3. \A i \in 0 .. L : End(i)' = End(i)
    BY <2>1, <2>2 DEF End
  <2>4. L + 1 # 0 /\ e.end = sent + Size(f)
    BY <1>a, <1>5
  <2> QED
    BY <1>a, <1>5, <2>3, <2>4 DEF End
<1>9. sent = End(L)
  <2>1. End(L) \in Nat /\ sent <= End(L)
    BY <1>a, <1>5 DEF Stream
  <2> QED
    BY <1>a, <1>3, <2>1 DEF PeerBegins, InFrame
<1>10. Stream'
  <2>1. \A i \in 0 .. L : End(i) \in Nat
    BY <1>a DEF Stream
  <2>2. \A i \in 0 .. Len(out)' : End(i)' \in Nat
    <3>1. \A i \in 0 .. Len(out)' : i \in 0 .. L \/ i = L + 1
      BY <1>a, <1>5
    <3>2. sent + Size(f) \in Nat
      BY <1>3
    <3> QED
      BY <1>8, <2>1, <3>1, <3>2
  <2>3. \A i, j \in 0 .. Len(out)' : i < j => End(i)' < End(j)'
    <3> SUFFICES ASSUME NEW i \in 0 .. Len(out'), NEW j \in 0 .. Len(out'), i < j
                 PROVE  End(i)' < End(j)'
      OBVIOUS
    <3>1. CASE j <= L
      BY <1>a, <1>5, <1>8, <3>1 DEF Stream
    <3>2. CASE j = L + 1
      <4>1. i \in 0 .. L
        BY <1>a, <1>5, <3>2
      <4>2. End(i) <= sent
        BY <1>a, <1>5, <1>9, <2>1, <4>1 DEF Stream
      <4> QED
        <5>1. End(i)' = End(i) /\ End(j)' = sent + Size(f)
          BY <1>a, <1>8, <3>2, <4>1
        <5>2. End(i) \in Nat /\ Size(f) > 0
          BY <1>3, <2>1, <4>1
        <5> QED
          BY <1>3, <4>2, <5>1, <5>2
    <3> QED
      BY <1>a, <1>5, <3>1, <3>2
  <2>4. ASSUME NEW i \in 1 .. Len(out')
        PROVE  /\ End(i)' = End(i - 1)' + Size(out'[i].frame)
               /\ ~out'[i].split => End(i - 1)' + HeaderLen[out'[i].frame] <= sent'
    <3>1. CASE i <= L
      <4>1. i \in 1 .. L /\ i \in 0 .. L /\ i - 1 \in 0 .. L
        BY <1>a, <1>5, <3>1
      <4>2. End(i)' = End(i) /\ End(i - 1)' = End(i - 1) /\ out'[i] = out[i]
        BY <1>a, <1>5, <1>8, <4>1
      <4>3. out[i].frame \in Replies
        <5>1. out[i] \in Record
          BY <1>a, <1>4, <4>1, ElementOf
        <5> QED
          BY <5>1 DEF Record
      <4>4. HeaderLen[out[i].frame] \in Nat /\ End(i - 1) \in Nat
        BY <2>1, <4>1, <4>3, SizeFacts
      <4>5. sent <= sent' /\ sent' \in Nat
        BY <1>2, <1>3
      <4>6. /\ End(i) = End(i - 1) + Size(out[i].frame)
            /\ ~out[i].split => End(i - 1) + HeaderLen[out[i].frame] <= sent
        BY <1>a, <4>1 DEF Stream
      <4>7. sent \in Nat
        BY <1>3
      <4>8. End(i)' = End(i - 1)' + Size(out'[i].frame)
        BY <4>2, <4>6
      <4>9. ASSUME ~out'[i].split
            PROVE  End(i - 1)' + HeaderLen[out'[i].frame] <= sent'
        <5>1. End(i - 1) + HeaderLen[out[i].frame] <= sent
          BY <4>2, <4>6, <4>9
        <5>2. End(i - 1)' + HeaderLen[out'[i].frame]
                = End(i - 1) + HeaderLen[out[i].frame]
          BY <4>2
        <5> QED
          BY <4>4, <4>5, <4>7, <5>1, <5>2
      <4> QED
        BY <4>8, <4>9
    <3>2. CASE i = L + 1
      <4>1. End(i)' = sent + Size(f) /\ End(i - 1)' = sent /\ out'[i].frame = f
        <5>1. i - 1 = L /\ L \in 0 .. L
          BY <1>a, <1>5, <3>2
        <5>2. End(i - 1)' = End(L)
          BY <1>8, <5>1
        <5>3. e.frame = f
          OBVIOUS
        <5> QED
          BY <1>a, <1>5, <1>8, <1>9, <3>2, <5>2, <5>3
      <4>2. End(i)' = End(i - 1)' + Size(out'[i].frame)
        BY <4>1
      <4>3. ASSUME ~out'[i].split
            PROVE  End(i - 1)' + HeaderLen[out'[i].frame] <= sent'
        <5>1. ~(c < HeaderLen[f])
          <6>1. out'[i] = e
            BY <1>5, <3>2
          <6>2. e.split = (c < HeaderLen[f])
            BY Zenon
          <6> HIDE DEF e
          <6> QED
            BY <4>3, <6>1, <6>2, Zenon
        <5>2. c >= HeaderLen[f] /\ sent' = sent + c
          BY <1>2, <1>3, <5>1
        <5> HIDE DEF e
        <5> QED
          BY <1>3, <4>1, <5>2
      <4> QED
        BY <4>2, <4>3
    <3> QED
      BY <1>a, <1>5, <3>1, <3>2
  <2>5. sent' <= End(Len(out))'
    <3>1. End(Len(out))' = End(L + 1)'
      BY <1>a, <1>5
    <3> QED
      BY <1>2, <1>3, <1>8, <3>1
  <2> QED
    BY <2>2, <2>3, <2>4, <2>5 DEF Stream
<1>11. Bounds'
  BY <1>2, <1>3, <1>6 DEF Bounds, TypeOK
<1>12. InStep'
  <2>1. ~Over
    BY DEF PeerBegins, Over
  <2>2. End(pos)' = End(pos)
    BY <1>a, <1>6, <1>8 DEF TypeOK
  <2>3. Asking => Asking'
    <3>1. CASE pos < L
      <4>1. pos + 1 \in 1 .. L
        BY <1>a, <1>5, <3>1 DEF TypeOK
      <4>2. out'[pos' + 1] = out[pos + 1] /\ pos' < Len(out')
        BY <1>a, <1>5, <1>6, <3>1, <4>1 DEF TypeOK
      <4> QED
        BY <1>6, <4>2 DEF Asking
    <3>2. CASE ~(pos < L)
      BY <1>a, <1>6, <3>2 DEF Asking
    <3> QED
      BY <3>1, <3>2
  <2>4. HeaderWhole' => HeaderWhole
    <3>1. CASE pos < L
      <4>1. pos + 1 \in 1 .. L
        BY <1>a, <1>5, <3>1 DEF TypeOK
      <4>2. out'[pos' + 1] = out[pos + 1] /\ pos' < Len(out')
        BY <1>a, <1>5, <1>6, <3>1, <4>1 DEF TypeOK
      <4> QED
        BY <4>2 DEF HeaderWhole
    <3>2. CASE ~(pos < L)
      BY <1>a, <3>2 DEF HeaderWhole
    <3> QED
      BY <3>1, <3>2
  <2> QED
    BY <1>6, <2>1, <2>2, <2>3, <2>4 DEF InStep
<1> QED
  BY <1>7, <1>10, <1>11, <1>12

LEMMA PeerContinuesExact == ASSUME Exact, PeerContinues PROVE Exact'
<1> USE DEF Exact
<1>1. UNCHANGED <<out, link, reading, start, taken, needed, guess, pos, insync, got>>
  BY DEF PeerContinues, reader
<1>2. /\ sent \in Nat /\ sent' \in Nat /\ sent < sent' /\ sent' <= End(Len(out))
  <2>1. sent \in Nat /\ End(Len(out)) \in Nat
    BY LenNat DEF TypeOK, Stream
  <2> QED
    BY <2>1 DEF PeerContinues
<1>3. TypeOK'
  BY <1>1, <1>2 DEF TypeOK
<1>4. Stream'
  <2>1. \A i \in 1 .. Len(out) :
          ~out[i].split => End(i - 1) + HeaderLen[out[i].frame] <= sent'
    <3> SUFFICES ASSUME NEW i \in 1 .. Len(out), ~out[i].split
                 PROVE  End(i - 1) + HeaderLen[out[i].frame] <= sent'
      OBVIOUS
    <3>1. out[i].frame \in Replies
      <4>1. out[i] \in Record
        BY ElementOf DEF TypeOK, Record
      <4> QED
        BY <4>1 DEF Record
    <3>2. i - 1 \in 0 .. Len(out)
      BY LenNat DEF TypeOK
    <3>3. HeaderLen[out[i].frame] \in Nat /\ End(i - 1) \in Nat
      <4>1. HeaderLen[out[i].frame] \in Nat
        BY <3>1, SizeFacts
      <4>2. End(i - 1) \in Nat
        BY <3>2 DEF Stream
      <4> QED
        BY <4>1, <4>2
    <3>4. End(i - 1) + HeaderLen[out[i].frame] <= sent
      BY DEF Stream
    <3> DEFINE h == HeaderLen[out[i].frame]
               b == End(i - 1)
    <3>5. h \in Nat /\ b \in Nat /\ b + h <= sent
      BY <3>3, <3>4
    <3> HIDE DEF h, b
    <3>6. b + h <= sent'
      BY <1>2, <3>5
    <3> QED
      BY <3>6 DEF h, b
  <2> QED
    BY <1>1, <1>2, <2>1 DEF Stream, End
<1>5. Bounds'
  BY <1>1, <1>2 DEF Bounds, TypeOK
<1>6. InStep'
  <2>1. ~Over
    BY DEF PeerContinues, Over
  <2> QED
    BY <1>1, <2>1 DEF InStep, HeaderWhole, Asking, End
<1> QED
  BY <1>3, <1>4, <1>5, <1>6

LEMMA PeerDropsExact == ASSUME Exact, PeerDrops PROVE Exact'
<1> USE DEF Exact
<1>1. /\ UNCHANGED <<out, sent, reading, start, taken, needed, guess, pos, insync, got>>
      /\ link' \in {"closed", "reset"} /\ ~Over
  BY DEF PeerDrops, reader, Over
<1>2. TypeOK'
  BY <1>1 DEF TypeOK
<1>3. Stream' /\ Bounds'
  BY <1>1 DEF Stream, End, Bounds
<1>4. InStep'
  BY <1>1 DEF InStep, HeaderWhole, Asking, End
<1> QED
  BY <1>2, <1>3, <1>4

-----------------------------------------------------------------------------
LEMMA StreamKept == ASSUME Stream, UNCHANGED peer PROVE Stream'
  BY DEF Stream, End, peer

LEMMA BeginExact ==
  ASSUME Exact, Begin \/ BeginWithoutMemory
  PROVE  Exact' /\ UNCHANGED <<pos, insync>>
<1> USE DEF Exact
<1>1. UNCHANGED <<out, sent, link, taken, pos, insync>>
  BY DEF Begin, BeginWithoutMemory, peer
<1>2. TypeOK'
  <2>1. CASE Begin
    <3>1. reading' \in BOOLEAN /\ start' \in Nat /\ needed' \in Nat /\ got' = got
      BY <2>1 DEF Begin, TypeOK
    <3>2. guess' \in Replies \cup {Nothing}
      BY <2>1 DEF Begin
    <3> QED
      BY <1>1, <3>1, <3>2 DEF TypeOK
  <2>2. CASE BeginWithoutMemory
    <3>1. got'.frame = Nothing /\ UNCHANGED <<reading, start, needed, guess>>
      BY <2>2 DEF BeginWithoutMemory
    <3> QED
      BY <1>1, <3>1 DEF TypeOK
  <2> QED
    BY <2>1, <2>2
<1>3. Stream'
  BY <1>1, StreamKept DEF peer
<1>4. Bounds'
  BY <1>1 DEF Begin, BeginWithoutMemory, Bounds, TypeOK
<1>5. InStep'
  <2>1. CASE Begin
    BY <1>1, <2>1 DEF Begin, InStep, HeaderWhole, Over, Asking, End, TypeOK
  <2>2. CASE BeginWithoutMemory
    BY <1>1, <2>2 DEF BeginWithoutMemory, InStep, HeaderWhole, Over, Asking, End
  <2> QED
    BY <2>1, <2>2
<1> QED
  BY <1>1, <1>2, <1>3, <1>4, <1>5

LEMMA StopExact ==
  ASSUME Exact, RecvLost \/ RecvNothing
  PROVE  Exact' /\ UNCHANGED <<pos, insync>>
<1> USE DEF Exact
<1>1. /\ UNCHANGED <<out, sent, link, start, needed, guess, taken, pos, insync>>
      /\ reading /\ ~reading' /\ reading' \in BOOLEAN
      /\ got'.frame = Nothing
  <2>1. CASE RecvLost
    BY <2>1 DEF RecvLost, Return, peer
  <2>2. CASE RecvNothing
    BY <2>2 DEF RecvNothing, Return, peer
  <2> QED
    BY <2>1, <2>2
<1>2. TypeOK'
  BY <1>1 DEF TypeOK
<1>3. Stream'
  BY <1>1, StreamKept DEF peer
<1>4. Bounds'
  BY <1>1 DEF Bounds
<1>5. InStep'
  <2>1. CASE RecvLost
    <3>1. CASE link = "closed" /\ Received = 0
      <4>1. taken = sent
        BY <1>1, <3>1, ReadFacts DEF Bounds, TypeOK
      <4> QED
        BY <1>1, <3>1, <4>1 DEF InStep, Over
    <3>2. CASE link = "reset"
      BY <1>1, <3>2 DEF InStep, Over
    <3> QED
      BY <2>1, <3>1, <3>2 DEF RecvLost
  <2>2. CASE RecvNothing
    <3>1. taken = start
      BY <1>1, <2>2, ReadFacts DEF RecvNothing, Bounds, TypeOK
    <3> QED
      BY <1>1, <2>2, <3>1 DEF RecvNothing, InStep, Over, End
  <2> QED
    BY <2>1, <2>2
<1> QED
  BY <1>1, <1>2, <1>3, <1>4, <1>5

(* The call goes on and asks for more.                                       *)
LEMMA AskExact ==
  ASSUME Exact, RecvHeader \/ RecvPayload
  PROVE  Exact' /\ UNCHANGED <<pos, insync>>
<1> USE DEF Exact
<1>1. /\ UNCHANGED <<out, sent, link, reading, start, guess, pos, insync, got>>
      /\ Receives /\ reading /\ nrecv > 0 /\ taken' = Offset
  BY DEF RecvHeader, RecvPayload, Receives, peer
<1>2. /\ Seen \in Replies
      /\ HeaderLen[Seen] \in {2, 4, 10} /\ Size(Seen) \in Nat
  BY <1>1, SeenFacts, SizeFacts
<1>3. /\ Offset \in Nat /\ nrecv \in Nat /\ Offset <= sent /\ nrecv <= needed
      /\ start <= Offset /\ nrecv = Offset - start
      /\ start \in Nat /\ needed \in Nat /\ sent \in Nat
  BY <1>1, ReadFacts DEF TypeOK
<1>4. /\ needed' \in Nat /\ nrecv < needed'
      /\ RecvHeader /\ nrecv = needed => needed' = nrecv + 2
      /\ RecvPayload => needed' = Size(Seen)
  <2>1. CASE RecvHeader
    <3>1. needed' = Least(needed + 2, MaxNeeded) /\ nrecv < HeaderLen[Seen]
      BY <2>1 DEF RecvHeader
    <3>2. nrecv < 10 /\ MaxNeeded > 10 /\ MaxNeeded \in Nat
      BY <1>2, <1>3, <3>1, LimitsAssumption
    <3>3. ~RecvPayload
      BY <1>2, <1>3, <3>1 DEF RecvPayload
    <3>4. nrecv = needed => needed + 2 <= MaxNeeded
      <4>1. nrecv < HeaderLen[Seen] /\ HeaderLen[Seen] <= 10
        BY <1>2, <3>1
      <4> QED
        BY <1>3, <3>2, <4>1
    <3> QED
      BY <1>3, <3>1, <3>2, <3>3, <3>4 DEF Least
  <2>2. CASE RecvPayload
    <3>1. needed' = Size(Seen) /\ nrecv < Size(Seen) /\ nrecv >= HeaderLen[Seen]
      BY <2>2 DEF RecvPayload
    <3>2. ~RecvHeader
      BY <1>2, <1>3, <3>1 DEF RecvHeader
    <3> QED
      BY <1>2, <3>1, <3>2
  <2> QED
    BY <2>1, <2>2
<1>5. TypeOK'
  BY <1>1, <1>3, <1>4 DEF TypeOK
<1>6. Stream'
  BY <1>1, StreamKept DEF peer
<1>7. Bounds'
  BY <1>1, <1>3, <1>4 DEF Bounds
<1>8. InStep'
  <2> SUFFICES ASSUME insync
               PROVE  start = End(pos) /\ (HeaderWhole' => Asking')
    BY <1>1 DEF InStep, End
  <2>1. /\ pos + 1 \in 1 .. Len(out) /\ Seen = out[pos + 1].frame
        /\ start = End(pos)
    BY <1>1, SeenFacts
  <2>2. pos' < Len(out') /\ out'[pos' + 1].frame = Seen
    BY <1>1, <2>1, LenNat DEF TypeOK
  <2>3. ASSUME HeaderWhole' PROVE Asking'
    <3>a. HeaderWhole
      BY <1>1, <2>3 DEF HeaderWhole
    <3>1. \/ nrecv \in {2, 4, 6, 8, 10} /\ nrecv <= HeaderLen[Seen] /\ nrecv = needed
          \/ HeaderLen[Seen] <= nrecv
      BY <1>1, <3>a, ExactFacts
    <3>2. taken' - start' = nrecv
      BY <1>1, <1>3
    <3>3. CASE RecvHeader
      <4>1. nrecv < HeaderLen[Seen]
        BY <3>3 DEF RecvHeader
      <4>2. nrecv \in {2, 4, 6, 8} /\ nrecv = needed
        BY <1>2, <1>3, <3>1, <4>1
      <4>3. needed' = nrecv + 2
        BY <1>4, <3>3, <4>2
      <4> QED
        BY <2>2, <3>2, <4>1, <4>2, <4>3 DEF Asking
    <3>4. CASE RecvPayload
      <4>1. HeaderLen[Seen] <= nrecv /\ nrecv < Size(Seen) /\ needed' = Size(Seen)
        BY <1>2, <1>3, <3>4 DEF RecvPayload
      <4> QED
        BY <2>2, <3>2, <4>1 DEF Asking, Size
    <3> QED
      BY <3>3, <3>4
  <2> QED
    BY <2>1, <2>3
<1> QED
  BY <1>1, <1>5, <1>6, <1>7, <1>8

(* The call gives up on a frame it has seen the header of.                   *)
LEMMA GiveUpExact ==
  ASSUME Exact, RecvRefused \/ RecvCannotGrow
  PROVE  Exact' /\ pos' = pos /\ got'.result \in {"PARSE", "NOMEM"}
<1> USE DEF Exact
<1>1. /\ UNCHANGED <<out, sent, link, start, needed, guess, pos>>
      /\ Receives /\ reading /\ taken' = Offset
      /\ reading' = FALSE /\ insync' = FALSE
      /\ got'.frame = Nothing /\ got'.result \in {"PARSE", "NOMEM"}
  <2>1. CASE RecvRefused
    BY <2>1 DEF RecvRefused, Receives, Return, peer
  <2>2. CASE RecvCannotGrow
    BY <2>2 DEF RecvCannotGrow, Receives, Return, peer
  <2> QED
    BY <2>1, <2>2
<1>2. Offset \in Nat /\ Offset <= sent /\ start <= Offset
  BY <1>1, ReadFacts DEF Bounds, TypeOK
<1>3. TypeOK'
  BY <1>1, <1>2 DEF TypeOK
<1>4. Stream'
  BY <1>1, StreamKept DEF peer
<1>5. Bounds' /\ InStep'
  BY <1>1, <1>2 DEF Bounds, InStep
<1> QED
  BY <1>1, <1>3, <1>4, <1>5

(* The call has the frame.  In step it ends exactly where the frame does, so *)
(* the frame is the only one used up.                                        *)
LEMMA CompleteExact ==
  ASSUME Exact, RecvComplete
  PROVE  /\ Exact'
         /\ HeaderWhole /\ insync =>
              /\ pos' = pos + 1 /\ insync'
              /\ got' = [frame |-> out[pos + 1].frame, result |-> "OK"]
<1> USE DEF Exact
<1>1. /\ UNCHANGED <<out, sent, link, start, needed, guess>>
      /\ Receives /\ reading /\ taken' = Offset /\ reading' = FALSE
      /\ nrecv >= Size(Seen)
      /\ pos' \in 0 .. Len(out) /\ End(pos') <= Offset
      /\ pos' < Len(out) => Offset < End(pos' + 1)
      /\ insync' = (insync /\ Offset = End(pos'))
  BY DEF RecvComplete, UsedUp, Receives, Return, peer
<1>2. Seen \in Replies
  BY <1>1, SeenFacts
<1>3. \/ got' = [frame |-> Seen, result |-> "OK"]
      \/ got' = [frame |-> Nothing, result |-> "INSUFFICIENT_DATA"] /\ nrecv < needed
  BY DEF RecvComplete, Return
<1>4. /\ Offset \in Nat /\ Offset <= sent /\ start <= Offset
      /\ nrecv = Offset - start /\ nrecv <= needed
      /\ start \in Nat /\ needed \in Nat
  BY <1>1, ReadFacts DEF Bounds, TypeOK
<1>5. TypeOK'
  <2>1. got'.frame \in Replies \cup {Nothing}
    BY <1>2, <1>3
  <2>2. insync' \in BOOLEAN
    BY <1>1
  <2> QED
    BY <1>1, <1>4, <2>1, <2>2 DEF TypeOK
<1>6. Stream'
  BY <1>1, StreamKept DEF peer
<1>7. Bounds'
  BY <1>1, <1>4 DEF Bounds
<1>8. InStep'
  <2>1. insync' => taken' = End(pos)'
    BY <1>1 DEF End
  <2> QED
    BY <1>1, <2>1 DEF InStep
<1>9. ASSUME HeaderWhole, insync
      PROVE  /\ pos' = pos + 1 /\ insync'
             /\ got' = [frame |-> out[pos + 1].frame, result |-> "OK"]
  <2>1. /\ pos + 1 \in 1 .. Len(out) /\ Seen = out[pos + 1].frame
        /\ start = End(pos) /\ End(pos + 1) = End(pos) + Size(Seen)
    BY <1>1, <1>9, SeenFacts
  <2>2. /\ HeaderLen[Seen] \in Nat /\ Size(Seen) \in Nat
        /\ HeaderLen[Seen] <= Size(Seen)
    BY <1>2, SizeFacts
  <2>3. nrecv = Size(Seen) /\ nrecv = needed
    <3>1. \/ nrecv <= HeaderLen[Seen] /\ nrecv = needed
          \/ nrecv <= Size(Seen) /\ needed = Size(Seen)
      BY <1>1, <1>9, ExactFacts
    <3> QED
      BY <1>1, <1>4, <2>2, <3>1
  <2>4. Offset = End(pos + 1)
    BY <1>4, <2>1, <2>3
  <2>5. pos' = pos + 1
    <3>1. PICK n \in Nat : /\ n = pos' /\ n <= Len(out) /\ End(n) <= Offset
                           /\ n < Len(out) => Offset < End(n + 1)
      BY <1>1
    <3>2. pos \in Nat /\ Len(out) \in Nat /\ pos + 1 <= Len(out)
      BY <2>1, LenNat DEF TypeOK
    <3>3. CASE n > pos + 1
      <4>1. End(pos + 1) < End(n)
        BY <3>1, <3>2, <3>3 DEF Stream
      <4>2. End(pos + 1) \in Nat /\ End(n) \in Nat
        BY <3>1, <3>2 DEF Stream
      <4> QED
        BY <2>4, <3>1, <4>1, <4>2
    <3>4. CASE n < pos + 1
      <4>1. n < Len(out) /\ n + 1 \in 0 .. Len(out) /\ pos + 1 \in 0 .. Len(out)
        BY <3>2, <3>4
      <4>2. n + 1 = pos + 1 \/ n + 1 < pos + 1
        BY <3>2, <3>4
      <4>3. n + 1 = pos + 1 \/ End(n + 1) < End(pos + 1)
        BY <4>1, <4>2 DEF Stream
      <4>4. End(n + 1) \in Nat /\ Offset < End(n + 1)
        BY <3>1, <4>1 DEF Stream
      <4> QED
        BY <1>4, <2>4, <4>3, <4>4
    <3> QED
      BY <3>1, <3>2, <3>3, <3>4
  <2>6. got' = [frame |-> Seen, result |-> "OK"]
    BY <1>3, <1>4, <2>3
  <2>7. insync'
    BY <1>1, <1>9, <2>4, <2>5
  <2> QED
    BY <2>1, <2>5, <2>6, <2>7
<1> QED
  BY <1>5, <1>6, <1>7, <1>8, <1>9

-----------------------------------------------------------------------------
LEMMA ExactStep == Exact /\ [Next]_vars => Exact'
<1> SUFFICES ASSUME Exact, [Next]_vars PROVE Exact'
  OBVIOUS
<1>1. CASE UNCHANGED vars
  BY <1>1 DEF vars, Exact, TypeOK, Stream, End, Bounds, InStep, HeaderWhole, Over,
         Asking
<1> QED
  BY <1>1, PeerBeginsExact, PeerContinuesExact, PeerDropsExact, BeginExact,
     StopExact, AskExact, GiveUpExact, CompleteExact
  DEF Next, Peer, Recv

(* Every variable keeps its type; in particular the reader never counts a    *)
(* frame the peer has not begun, however the bytes arrive (562-646).         *)
THEOREM ReaderTypeCorrect == Spec => []TypeOK
<1>1. Exact => TypeOK
  BY DEF Exact
<1> QED
  BY <1>1, ExactInit, ExactStep, PTL DEF Spec

(* A frame whose header arrives whole is handed over, once and in order, or  *)
(* refused: the two bytes more of each round (604-608) never reach the next  *)
(* frame, whatever the lengths are and wherever its payload is cut.          *)
THEOREM WholeFrameKeptAlways == Spec => WholeFrameKept
<1> DEFINE Step == insync /\ HeaderWhole /\ <<pos, insync>>' # <<pos, insync>> => Kept
<1>1. Exact /\ [Next]_vars => [Step]_vars
  <2> SUFFICES ASSUME Exact, Next PROVE Step
    OBVIOUS
  <2>1. CASE Peer
    BY <2>1 DEF Peer, PeerBegins, PeerContinues, PeerDrops, reader
  <2>2. CASE Begin \/ BeginWithoutMemory
    BY <2>2, BeginExact
  <2>3. CASE Recv
    BY <2>3, StopExact, AskExact, GiveUpExact, CompleteExact DEF Recv, Kept
  <2> QED
    BY <2>1, <2>2, <2>3 DEF Next
<1>2. Spec => [][Step]_vars
  BY <1>1, ExactInit, ExactStep, PTL DEF Spec
<1> QED
  BY <1>2 DEF WholeFrameKept

-----------------------------------------------------------------------------
(* A call of revoltc_ws_recv does what Websocket says of it, for any frames, *)
(* in whatever pieces they arrive (websocket.c 562-646).                     *)

(* What Websocket sees of the peer.                                          *)
Complete ==
  [i \in 1 .. Served |-> [op |-> out[i].frame.op, data |-> out[i].frame.data,
                          split |-> out[i].split]]
Begun ==
  IF ~InFrame THEN "no" ELSE IF out[Len(out)].split THEN "head" ELSE "body"

LEMMA PeerUnseen ==
  ASSUME UNCHANGED peer
  PROVE  UNCHANGED <<Served, InFrame, Complete, Begun>>
  BY DEF peer, Served, InFrame, End, Complete, Begun

LEMMA NothingSeen ==
  ASSUME UNCHANGED peer, UNCHANGED <<pos, insync>>
  PROVE  UNCHANGED Frames!wsvars
<1>1. UNCHANGED <<link, Complete, Begun, pos, insync>>
  BY PeerUnseen DEF peer
<1> QED
  BY <1>1 DEF Frames!wsvars, Complete, Begun

LEMMA Garbage ==
  ASSUME UNCHANGED peer, ~insync, ~insync', NEW fr, 
         NEW r \in {"OK", "PARSE", "INSUFFICIENT_DATA", "DISCONNECT"},
         r = "DISCONNECT" => link # "up",
         fr = Nothing \/ (r = "OK" /\ fr \in Replies \ Refused),
         pos' \in pos .. Served,
         insync \in BOOLEAN, insync' \in BOOLEAN, Served \in Nat
  PROVE  Frames!revoltc_ws_recv(fr, r)
<1>1. UNCHANGED <<link, Complete, Begun, insync>>
  BY PeerUnseen DEF peer
<1>2. Frames!ReadGarbage(fr, r)
  <2>1. Len(Complete) = Served
    BY DEF Complete
  <2>2. fr = Frames!NoFrame \/ (r = "OK" /\ ~Frames!TooLong(fr))
    BY SameFrames
  <2>3. [h \in {conn} |-> pos'] = [[h \in {conn} |-> pos] EXCEPT ![conn] = pos']
    OBVIOUS
  <2>4. [h \in {conn} |-> insync'] = [h \in {conn} |-> insync]
    BY <1>1
  <2> QED
    BY <2>1, <2>2, <2>3, <2>4 DEF Frames!ReadGarbage, Complete
<1> QED
  BY <1>1, <1>2 DEF Frames!revoltc_ws_recv, Complete, Begun

LEMMA FrameRead ==
  ASSUME UNCHANGED peer, insync, insync \in BOOLEAN, NEW fr, NEW r, Frames!ReadFrame(fr, r)
  PROVE  Frames!revoltc_ws_recv(fr, r)
<1>1. UNCHANGED <<link, Complete, Begun>>
  BY PeerUnseen DEF peer
<1> QED
  BY <1>1 DEF Frames!revoltc_ws_recv, Complete, Begun

-----------------------------------------------------------------------------
(* Exact, and what a reader out of step keeps to as well: each frame has its *)
(* first byte, and the frames used up end where the reader is or before.     *)
FrameStarted == \A i \in 1 .. Len(out) : End(i - 1) < sent
Followed ==
  Exact /\ Len(out) <= MaxServed /\ FrameStarted /\ End(pos) <= taken

LEMMA ServedFacts ==
  ASSUME Followed
  PROVE  /\ Served \in Nat /\ Len(out) \in Nat
         /\ ~InFrame => Served = Len(out) /\ sent = End(Len(out))
         /\ InFrame => Len(out) > 0 /\ Served = Len(out) - 1
         /\ \A q \in 0 .. Len(out) : End(q) <= sent => q <= Served
         /\ pos \in 0 .. Served
<1> USE DEF Followed, Exact, Stream, TypeOK, Bounds
<1>1. Len(out) \in Nat /\ sent \in Nat /\ End(Len(out)) \in Nat /\ sent <= End(Len(out))
  BY LenNat
<1>2. End(0) = 0
  BY DEF End
<1>3. CASE InFrame
  <2>1. sent < End(Len(out))
    BY <1>3 DEF InFrame
  <2>2. Len(out) # 0
    BY <1>1, <1>2, <2>1
  <2>3. Served = Len(out) - 1 /\ Len(out) > 0
    BY <1>1, <1>3, <2>2 DEF Served
  <2>4. \A q \in 0 .. Len(out) : End(q) <= sent => q # Len(out)
    BY <1>1, <2>1
  <2>5. End(pos) <= sent
    <3>1. End(pos) \in Nat
      OBVIOUS
    <3> QED
      BY <3>1
  <2> QED
    BY <1>1, <1>3, <2>3, <2>4, <2>5
<1>4. CASE ~InFrame
  <2>1. Served = Len(out) /\ sent = End(Len(out))
    BY <1>1, <1>4 DEF InFrame, Served
  <2> QED
    BY <1>1, <1>4, <2>1
<1> QED
  BY <1>3, <1>4

LEMMA StartedKept ==
  ASSUME Followed, [Next]_vars
  PROVE  Len(out') <= MaxServed /\ FrameStarted'
<1> USE DEF Followed, Exact, TypeOK
<1>1. CASE UNCHANGED <<out, sent>>
  BY <1>1 DEF FrameStarted, End
<1>2. CASE PeerContinues
  <2>1. out' = out /\ sent' > sent /\ sent' \in Nat
    <3>1. End(Len(out)) \in Nat
      BY LenNat DEF Stream
    <3> QED
      BY <1>2, <3>1 DEF PeerContinues
  <2>2. \A i \in 1 .. Len(out) : i - 1 \in 0 .. Len(out) /\ End(i - 1) \in Nat
    BY LenNat DEF Stream
  <2> QED
    BY <2>1, <2>2 DEF FrameStarted, End
<1>3. CASE PeerBegins
  <2>1. PICK f \in Replies : \E c \in 1 .. Size(f) :
          /\ out' = Append(out, [frame |-> f, end |-> sent + Size(f),
                                 split |-> c < HeaderLen[f]])
          /\ sent' = sent + c
    BY <1>3 DEF PeerBegins
  <2>2. PICK c \in 1 .. Size(f) :
          /\ out' = Append(out, [frame |-> f, end |-> sent + Size(f),
                                 split |-> c < HeaderLen[f]])
          /\ sent' = sent + c
    BY <2>1
  <2>3. Size(f) \in Nat /\ sent' \in Nat /\ sent' > sent
    BY <2>2, SizeFacts
  <2>4. PICK L \in Nat : L = Len(out) /\ L < MaxServed
    BY <1>3, LenNat DEF PeerBegins
  <2>5. Len(out') = L + 1 /\ \A i \in 1 .. L : out'[i] = out[i]
    <3>1. [frame |-> f, end |-> sent + Size(f), split |-> c < HeaderLen[f]] \in Record
      BY <2>3 DEF Record
    <3> QED
      BY <2>2, <2>4, <3>1, AppendFacts DEF Record
  <2>6. \A i \in 0 .. L : End(i)' = End(i) /\ End(i) \in Nat /\ End(i) <= sent
    <3>1. \A i \in 0 .. L : End(i)' = End(i)
      BY <2>4, <2>5 DEF End
    <3>2. sent = End(L)
      BY <1>3, <2>4, ServedFacts DEF PeerBegins
    <3>3. \A i \in 0 .. L : End(i) \in Nat /\ (i = L \/ End(i) < End(L))
      BY <2>4 DEF Stream
    <3> QED
      BY <3>1, <3>2, <3>3
  <2>7. \A i \in 1 .. Len(out') : i - 1 \in 0 .. L
    BY <2>4, <2>5
  <2>8. ASSUME NEW i \in 1 .. Len(out') PROVE End(i - 1)' < sent'
    BY <2>3, <2>6, <2>7
  <2> QED
    BY <2>4, <2>5, <2>8, LimitsAssumption DEF FrameStarted
<1> QED
  BY <1>1, <1>2, <1>3
  DEF Next, Peer, PeerDrops, Begin, BeginWithoutMemory, Recv, RecvLost, RecvNothing,
      RecvHeader, RecvRefused, RecvPayload, RecvCannotGrow, RecvComplete, vars, peer

LEMMA BehindKept ==
  ASSUME Followed, [Next]_vars
  PROVE  End(pos)' <= taken'
<1> USE DEF Followed, Exact, TypeOK
<1>1. End(pos) \in Nat /\ End(pos) <= taken /\ taken \in Nat
  BY DEF Stream
<1>2. CASE UNCHANGED <<out, pos>> /\ taken' = taken
  BY <1>1, <1>2 DEF End
<1>3. CASE PeerBegins
  <2>1. PICK e \in Record : out' = Append(out, e)
    <3>1. PICK f \in Replies : \E c \in 1 .. Size(f) :
            out' = Append(out, [frame |-> f, end |-> sent + Size(f),
                                split |-> c < HeaderLen[f]])
      BY <1>3 DEF PeerBegins
    <3>2. \A c \in 1 .. Size(f) :
            [frame |-> f, end |-> sent + Size(f), split |-> c < HeaderLen[f]] \in Record
      BY SizeFacts DEF Record
    <3> QED
      BY <3>1, <3>2
  <2>2. pos = 0 \/ pos \in 1 .. Len(out)
    BY LenNat
  <2>3. pos # 0 => out'[pos] = out[pos]
    BY <2>1, <2>2, AppendFacts DEF Record
  <2> QED
    BY <1>1, <1>3, <2>3 DEF PeerBegins, End, reader
<1>4. CASE Receives /\ out' = out /\ pos' = pos /\ taken' = Offset
  <2>1. taken' >= taken
    BY <1>4, ReadFacts DEF Receives
  <2>2. taken' \in Nat
    BY <1>4, ReadFacts DEF Receives
  <2>3. End(pos)' = End(pos)
    BY <1>4 DEF End
  <2> QED
    BY <1>1, <2>1, <2>2, <2>3
<1>5. CASE RecvComplete
  BY <1>5 DEF RecvComplete, UsedUp, End, peer
<1> QED
  BY <1>2, <1>3, <1>4, <1>5
  DEF Next, Peer, PeerContinues, PeerDrops, Begin, BeginWithoutMemory, Recv, RecvLost,
      RecvNothing, RecvHeader, RecvRefused, RecvPayload, RecvCannotGrow, vars, peer,
      reader

LEMMA FollowedAlways == Spec => []Followed
<1>1. Init => Followed
  <2> SUFFICES ASSUME Init PROVE Followed
    OBVIOUS
  <2>1. Exact /\ Len(out) = 0 /\ End(pos) <= taken
    BY ExactInit DEF Init, End
  <2> QED
    BY <2>1, LimitsAssumption DEF Followed, FrameStarted
<1>2. Followed /\ [Next]_vars => Followed'
  <2> SUFFICES ASSUME Followed, [Next]_vars PROVE Followed'
    OBVIOUS
  <2>1. Exact'
    BY ExactStep DEF Followed
  <2> QED
    BY <2>1, StartedKept, BehindKept DEF Followed
<1> QED
  BY <1>1, <1>2, PTL DEF Spec

-----------------------------------------------------------------------------

LEMMA OutFacts ==
  ASSUME Followed
  PROVE  /\ out \in Seq(Record)
         /\ \A i \in 1 .. Len(out) : /\ out[i].frame \in Replies
                                   /\ out[i].split \in BOOLEAN
<1>1. out \in Seq(Record)
  BY DEF Followed, Exact, TypeOK, Record
<1>2. \A i \in 1 .. Len(out) : out[i] \in Record
  BY <1>1, ElementOf
<1> QED
  BY <1>1, <1>2 DEF Record

(* What the peer does is seen as soon as a frame is begun or complete.       *)
LEMMA AppendIs ==
  ASSUME NEW k \in Nat, NEW S, NEW s \in [1 .. k -> S], NEW t \in [1 .. k + 1 -> S],
         \A i \in 1 .. k : t[i] = s[i]
  PROVE  t = Append(s, t[k + 1])
<1>1. s \in Seq(S) /\ Len(s) = k
  OBVIOUS
<1>2. t \in Seq(S) /\ Len(t) = k + 1
  OBVIOUS
<1>3. /\ Append(s, t[k + 1]) \in Seq(S) /\ Len(Append(s, t[k + 1])) = k + 1
      /\ \A i \in 1 .. k : Append(s, t[k + 1])[i] = s[i]
      /\ Append(s, t[k + 1])[k + 1] = t[k + 1]
  BY <1>1, AppendFacts
<1>4. \A i \in 1 .. k + 1 : t[i] = Append(s, t[k + 1])[i]
  BY <1>3
<1> QED
  BY <1>2, <1>3, <1>4

SeenFrame == [op : Frames!Opcodes, data : Data, split : BOOLEAN]

CompleteType ==
  /\ Complete \in [1 .. Served -> SeenFrame] /\ Len(Complete) = Served
  /\ Served \in Nat /\ Served <= MaxServed

LEMMA CompleteFacts == Followed => CompleteType
<1> SUFFICES ASSUME Followed PROVE CompleteType
  OBVIOUS
<1>1. /\ out \in Seq(Record) /\ Served \in Nat /\ Len(out) \in Nat
      /\ Served <= Len(out) /\ Served <= MaxServed
  BY ServedFacts, LimitsAssumption DEF Followed, Exact, TypeOK, Record
<1>2. ASSUME NEW i \in 1 .. Served
      PROVE  [op |-> out[i].frame.op, data |-> out[i].frame.data,
              split |-> out[i].split] \in SeenFrame
  <2>1. out[i] \in Record
    BY <1>1, ElementOf
  <2>2. out[i].frame \in [op : Frames!Opcodes, data : Data] /\ out[i].split \in BOOLEAN
    BY <2>1, SameFrames DEF Record
  <2> QED
    BY <2>2 DEF SeenFrame
<1> QED
  BY <1>1, <1>2 DEF Complete, CompleteType

LEMMA SendsSeen ==
  ASSUME Followed, Followed', UNCHANGED <<pos, insync, link>>, link = "up",
         Served' = Served + 1, \A i \in 1 .. Served : Complete'[i] = Complete[i],
         NEW f \in Replies,
         Complete'[Served + 1] = [op |-> f.op, data |-> f.data, split |-> Begun = "head"],
         Begun' = "no"
  PROVE  Frames!ServerSends(conn)
<1>1. CompleteType /\ CompleteType'
  BY CompleteFacts, PTL
<1>2. /\ Complete \in [1 .. Served -> SeenFrame] /\ Len(Complete) = Served
      /\ Complete' \in [1 .. Served + 1 -> SeenFrame] /\ Served \in Nat
      /\ Served < MaxServed
  BY <1>1, LimitsAssumption DEF CompleteType, SeenFrame
<1>3. Complete' = Append(Complete, Complete'[Served + 1])
  <2> DEFINE s == Complete
             t == Complete'
             k == Served
  <2>1. k \in Nat /\ s \in [1 .. k -> SeenFrame] /\ t \in [1 .. k + 1 -> SeenFrame]
    BY <1>2
  <2>2. \A i \in 1 .. k : t[i] = s[i]
    OBVIOUS
  <2> HIDE DEF s, t, k
  <2>3. t = Append(s, t[k + 1])
    BY <2>1, <2>2, AppendIs
  <2> QED
    BY <2>3 DEF s, t, k
<1>4. Complete' = Append(Complete, [op |-> f.op, data |-> f.data, split |-> Begun = "head"])
  BY <1>3
<1> QED
  BY <1>2, <1>4 DEF Frames!ServerSends, Complete, Begun

(* The peer begins a frame, completes one, or goes away.                     *)
LEMMA DropSeen == ASSUME PeerDrops PROVE Frames!Peer
<1>1. /\ UNCHANGED <<pos, insync, Complete, Begun>>
      /\ link = "up" /\ link' # "up"
  BY DEF PeerDrops, Complete, Begun, Served, InFrame, End, reader
<1>2. Frames!ServerDrops(conn)
  BY <1>1 DEF Frames!ServerDrops, Frames!peervars, Complete, Begun
<1> QED
  BY <1>2 DEF Frames!Peer

LEMMA ContinueSeen ==
  ASSUME Followed, Followed', PeerContinues
  PROVE  Frames!Peer \/ UNCHANGED Frames!wsvars
<1>1. /\ UNCHANGED <<out, link, pos, insync>> /\ link = "up" /\ InFrame
      /\ sent' \in sent + 1 .. End(Len(out))
  BY DEF PeerContinues, reader
<1>2. End(Len(out))' = End(Len(out))
  BY <1>1 DEF End
<1>3. CASE InFrame'
  <2>1. UNCHANGED <<Complete, Begun>>
    BY <1>1, <1>3 DEF Complete, Begun, Served
  <2> QED
    BY <1>1, <2>1 DEF Frames!wsvars, Complete, Begun
<1>4. CASE ~InFrame'
  <2>1. /\ Len(out) > 0 /\ Len(out) \in Nat /\ Served = Len(out) - 1
        /\ Served' = Len(out)
    BY <1>1, <1>4, ServedFacts DEF Served
  <2>2. out[Len(out)].frame \in Replies /\ out[Len(out)].split \in BOOLEAN
    BY <2>1, OutFacts
  <2>3. PICK f \in Replies : out[Len(out)].frame = f
    BY <2>2
  <2>4. \A i \in 1 .. Served : Complete'[i] = Complete[i]
    BY <1>1, <2>1 DEF Complete
  <2>5. Complete'[Served + 1] = [op |-> f.op, data |-> f.data, split |-> out[Len(out)].split]
    BY <1>1, <2>1, <2>3 DEF Complete
  <2>6. out[Len(out)].split = (Begun = "head")
    <3>1. Begun = IF out[Len(out)].split THEN "head" ELSE "body"
      BY <1>1 DEF Begun
    <3> QED
      BY <2>2, <3>1
  <2>7. Begun' = "no"
    BY <1>4 DEF Begun
  <2>8. Frames!ServerSends(conn)
    BY <1>1, <2>1, <2>3, <2>4, <2>5, <2>6, <2>7, SendsSeen
  <2> QED
    BY <2>8 DEF Frames!Peer
<1> QED
  BY <1>3, <1>4

LEMMA BeginSeen ==
  ASSUME Followed, Followed', PeerBegins
  PROVE  Frames!Peer
<1>1. PICK f \in Replies : \E c \in 1 .. Size(f) :
        /\ c < HeaderLen[f] => SplitHeaders
        /\ out' = Append(out, [frame |-> f, end |-> sent + Size(f),
                               split |-> c < HeaderLen[f]])
        /\ sent' = sent + c
  BY DEF PeerBegins
<1>2. PICK c \in 1 .. Size(f) :
        /\ c < HeaderLen[f] => SplitHeaders
        /\ out' = Append(out, [frame |-> f, end |-> sent + Size(f),
                               split |-> c < HeaderLen[f]])
        /\ sent' = sent + c
  BY <1>1
<1>3. PICK split \in BOOLEAN : split = (c < HeaderLen[f])
  <2>1. (c < HeaderLen[f]) \in BOOLEAN
    OBVIOUS
  <2> QED
    BY <2>1, Zenon
<1>4. /\ Size(f) \in Nat /\ HeaderLen[f] \in Nat /\ HeaderLen[f] <= Size(f)
      /\ sent \in Nat /\ c \in Nat /\ c <= Size(f)
  <2>1. sent \in Nat
    BY DEF Followed, Exact, TypeOK
  <2>2. Size(f) \in Nat /\ HeaderLen[f] \in {2, 4, 10} /\ HeaderLen[f] <= Size(f)
    BY SizeFacts
  <2> QED
    BY <2>1, <2>2
<1>5. PICK L \in Nat : L = Len(out)
  BY ServedFacts
<1>6. /\ UNCHANGED <<link, pos, insync>> /\ link = "up" /\ ~InFrame /\ L < MaxServed
      /\ Served = L
  BY <1>5, ServedFacts DEF PeerBegins, reader
<1>7. /\ Len(out') = L + 1 /\ \A i \in 1 .. L : out'[i] = out[i]
      /\ out'[L + 1] = [frame |-> f, end |-> sent + Size(f), split |-> split]
  <2> DEFINE e == [frame |-> f, end |-> sent + Size(f), split |-> split]
  <2>1. e \in Record /\ out' = Append(out, e)
    BY <1>2, <1>3, <1>4 DEF Record
  <2>2. out \in Seq(Record)
    BY OutFacts
  <2> HIDE DEF e
  <2>3. /\ Len(out') = L + 1 /\ \A i \in 1 .. L : out'[i] = out[i]
        /\ out'[L + 1] = e
    BY <1>5, <2>1, <2>2, AppendFacts
  <2> QED
    BY <2>3 DEF e
<1>8. End(Len(out))' = sent + Size(f)
  BY <1>5, <1>7 DEF End
<1>9. Begun = "no"
  BY <1>6 DEF Begun
<1>10. CASE c < Size(f)
  <2>1. InFrame'
    BY <1>2, <1>4, <1>8, <1>10 DEF InFrame
  <2>2. Served' = L
    BY <1>5, <1>7, <2>1 DEF Served
  <2>3. Complete' = Complete
    BY <1>6, <1>7, <2>2 DEF Complete
  <2>4. Begun' = IF split THEN "head" ELSE "body"
    BY <1>5, <1>7, <2>1 DEF Begun
  <2>5. split => SplitHeaders
    BY <1>2, <1>3
  <2>6. Len(Complete) < MaxServed
    BY <1>6, CompleteFacts DEF CompleteType
  <2>7. Frames!ServerBegins(conn)
    BY <1>6, <1>9, <2>3, <2>4, <2>5, <2>6 DEF Frames!ServerBegins, Complete, Begun
  <2> QED
    BY <2>7 DEF Frames!Peer
<1>11. CASE c = Size(f)
  <2>1. ~InFrame'
    BY <1>2, <1>4, <1>8, <1>11 DEF InFrame
  <2>2. Served' = L + 1
    BY <1>5, <1>7, <2>1 DEF Served
  <2>3. Begun' = "no"
    BY <2>1 DEF Begun
  <2>4. \A i \in 1 .. Served : Complete'[i] = Complete[i]
    BY <1>6, <1>7, <2>2 DEF Complete
  <2>5. split = (Begun = "head")
    BY <1>3, <1>4, <1>9, <1>11
  <2>6. Complete'[Served + 1] = [op |-> f.op, data |-> f.data, split |-> split]
    BY <1>6, <1>7, <2>2 DEF Complete
  <2>7. Frames!ServerSends(conn)
    BY <1>6, <2>2, <2>3, <2>4, <2>5, <2>6, SendsSeen
  <2> QED
    BY <2>7 DEF Frames!Peer
<1> QED
  BY <1>4, <1>10, <1>11

-----------------------------------------------------------------------------
(* What a call returns.                                                      *)
LEMMA LostSeen ==
  ASSUME Followed, RecvLost
  PROVE  Frames!revoltc_ws_recv(got'.frame, got'.result)
<1>1. /\ UNCHANGED peer /\ UNCHANGED <<pos, insync>> /\ insync \in BOOLEAN
      /\ got' = [frame |-> Nothing, result |-> "DISCONNECT"]
      /\ link # "up"
  BY DEF RecvLost, Return, Followed, Exact, TypeOK
<1>2. pos \in 0 .. Served /\ Served \in Nat
  BY ServedFacts
<1>3. CASE insync
  <2>1. Frames!ReadFrame(Nothing, "DISCONNECT")
    BY <1>1, SameFrames DEF Frames!ReadFrame
  <2> QED
    BY <1>1, <1>3, <2>1, FrameRead
<1>4. CASE ~insync
  <2>1. pos' \in pos .. Served
    BY <1>1, <1>2
  <2> QED
    BY <1>1, <1>2, <1>4, <2>1, Garbage
<1> QED
  BY <1>3, <1>4

LEMMA NoDataSeen ==
  ASSUME Followed, RecvNothing
  PROVE  Frames!revoltc_ws_recv(got'.frame, got'.result)
<1>1. /\ UNCHANGED peer /\ UNCHANGED <<pos, insync>> /\ insync \in BOOLEAN
      /\ got' = [frame |-> Nothing, result |-> "OK"]
      /\ link = "up" /\ reading /\ nrecv = 0
  BY DEF RecvNothing, Return, Followed, Exact, TypeOK
<1>2. pos \in 0 .. Served /\ Served \in Nat /\ Len(out) \in Nat
  BY ServedFacts
<1>3. CASE insync
  <2>1. start = End(pos)
    BY <1>1, <1>3 DEF Followed, Exact, InStep, Over
  <2>2. sent = start
    <3>1. needed - (taken - start) > 0 /\ start <= taken
      BY <1>1 DEF Followed, Exact, Bounds, TypeOK
    <3>2. start \in Nat /\ taken \in Nat /\ needed \in Nat /\ sent \in Nat
      BY DEF Followed, Exact, TypeOK
    <3>3. /\ Received \in Nat /\ Offset = taken + Received /\ nrecv = Offset - start
          /\ Received = needed - (taken - start) \/ Received = sent - taken
      BY <1>1, ReadFacts DEF Followed
    <3>4. taken + Received = start
      <4>1. nrecv = 0 /\ Offset \in Nat
        BY <1>1, ReadFacts DEF Followed
      <4> QED
        BY <3>2, <3>3, <4>1
    <3> QED
      BY <3>1, <3>2, <3>3, <3>4
  <2>3. pos = Len(out)
    <3>1. ASSUME pos < Len(out) PROVE FALSE
      <4>1. pos + 1 \in 1 .. Len(out) /\ (pos + 1) - 1 = pos
        BY <1>2, <3>1
      <4>2. End(pos) < sent
        BY <4>1 DEF Followed, FrameStarted
      <4>3. sent \in Nat
        BY DEF Followed, Exact, TypeOK
      <4> QED
        BY <2>1, <2>2, <4>2, <4>3
    <3>2. pos \in 0 .. Len(out)
      BY DEF Followed, Exact, TypeOK
    <3> QED
      BY <1>2, <3>1, <3>2
  <2>4. ~InFrame
    BY <2>1, <2>2, <2>3 DEF InFrame, Followed, Exact, TypeOK
  <2>5. Begun = "no" /\ ~(pos < Len(Complete))
    BY <1>2, <2>3, <2>4, CompleteFacts, ServedFacts DEF Begun, CompleteType
  <2>6. Frames!ReadFrame(Nothing, "OK")
    BY <1>1, <2>5, SameFrames
    DEF Frames!ReadFrame, Frames!Pending, Complete, Begun
  <2> QED
    BY <1>1, <1>3, <2>6, FrameRead
<1>4. CASE ~insync
  <2>1. pos' \in pos .. Served
    BY <1>1, <1>2
  <2> QED
    BY <1>1, <1>2, <1>4, <2>1, Garbage
<1> QED
  BY <1>3, <1>4

(* A frame whose header the call has seen is one that may be arriving.       *)
LEMMA SeenArrives ==
  ASSUME Followed, Receives, insync
  PROVE  /\ pos < Served => /\ Complete[pos + 1].op = Seen.op
                            /\ Complete[pos + 1].data = Seen.data
         /\ ~(pos < Served) => Begun # "no" /\ Seen \in Replies
         /\ Seen = [op |-> Seen.op, data |-> Seen.data]
<1>1. pos + 1 \in 1 .. Len(out) /\ Seen = out[pos + 1].frame /\ Seen \in Replies
  BY SeenFacts DEF Followed
<1>2. /\ Served \in Nat /\ pos \in 0 .. Served /\ Len(out) \in Nat
      /\ ~InFrame => Served = Len(out)
  BY ServedFacts
<1>3. ~(pos < Served) => InFrame
  BY <1>1, <1>2
<1>4. ~(pos < Served) => Begun # "no"
  BY <1>3 DEF Begun
<1>5. Seen \in [op : Frames!Opcodes, data : Data]
  BY <1>1, SameFrames
<1>6. pos < Served => pos + 1 \in 1 .. Served
  BY <1>2
<1> QED
  BY <1>1, <1>4, <1>5, <1>6 DEF Complete

LEMMA ArrivingFacts ==
  ASSUME Followed, Receives, insync
  PROVE  Seen \in Frames!Arriving(conn)
<1>1. Len(Complete) = Served
  BY CompleteFacts DEF CompleteType
<1> QED
  BY <1>1, SeenArrives DEF Frames!Arriving, Frames!Pending, Complete, Begun

LEMMA RefusedSeen ==
  ASSUME Followed, RecvRefused
  PROVE  Frames!revoltc_ws_recv(got'.frame, got'.result)
<1>1. /\ UNCHANGED peer /\ pos' = pos /\ insync' = FALSE /\ insync \in BOOLEAN
      /\ got' = [frame |-> Nothing, result |-> "PARSE"]
      /\ Receives /\ Seen \in Refused
  BY DEF RecvRefused, Return, Followed, Exact, TypeOK
<1>2. pos \in 0 .. Served /\ Served \in Nat
  BY ServedFacts
<1>3. CASE insync
  <2>1. \E a \in Frames!Arriving(conn) : Frames!TooLong(a)
    BY <1>1, <1>3, ArrivingFacts, SameFrames
  <2>2. Frames!ReadFrame(Nothing, "PARSE")
    BY <1>1, <2>1, SameFrames DEF Frames!ReadFrame
  <2> QED
    BY <1>1, <1>3, <2>2, FrameRead
<1>4. CASE ~insync
  <2>1. pos' \in pos .. Served
    BY <1>1, <1>2
  <2> QED
    BY <1>1, <1>2, <1>4, <2>1, Garbage
<1> QED
  BY <1>3, <1>4

LEMMA CannotGrowSeen ==
  ASSUME Followed, RecvCannotGrow
  PROVE  Frames!revoltc_ws_recv(got'.frame, got'.result)
<1>1. /\ UNCHANGED peer /\ pos' = pos /\ insync' = FALSE /\ insync \in BOOLEAN
      /\ got' = [frame |-> Nothing, result |-> "NOMEM"]
      /\ Receives /\ Seen \in Large /\ AllocMayFail
  BY DEF RecvCannotGrow, Return, Followed, Exact, TypeOK
<1>2. CASE insync
  <2>1. \E a \in Frames!Arriving(conn) : a.data \in Long
    BY <1>1, <1>2, ArrivingFacts, SameFrames
  <2>2. Frames!ReadFrame(Nothing, "NOMEM")
    BY <1>1, <2>1, SameFrames DEF Frames!ReadFrame
  <2> QED
    BY <1>1, <1>2, <2>2, FrameRead
<1>3. CASE ~insync
  <2>1. UNCHANGED <<link, Complete, Begun, pos, insync>>
    BY <1>1, <1>3, PeerUnseen DEF peer
  <2>2. Frames!revoltc_ws_recv(Nothing, "NOMEM")
    BY <1>1, <2>1, SameFrames DEF Frames!revoltc_ws_recv, Complete, Begun
  <2> QED
    BY <1>1, <2>2
<1> QED
  BY <1>2, <1>3

LEMMA OverReadSeen ==
  ASSUME NEW n \in pos + 1 .. Served, pos' = n, insync' \in BOOLEAN,
         Len(Complete) = Served, NEW r \in {"OK", "INSUFFICIENT_DATA"},
         r = "INSUFFICIENT_DATA" => n = Served,
         ~insync' => n < Served \/ Begun # "no",
         r = "INSUFFICIENT_DATA" /\ Begun # "no" => ~insync'
  PROVE  Frames!OverRead(r)
<1>1. [h \in {conn} |-> pos'] = [[h \in {conn} |-> pos] EXCEPT ![conn] = n]
  OBVIOUS
<1>2. PICK sync \in BOOLEAN : sync = insync'
  OBVIOUS
<1>3. [h \in {conn} |-> insync'] = [[h \in {conn} |-> insync] EXCEPT ![conn] = sync]
  BY <1>2
<1> QED
  BY <1>1, <1>2, <1>3 DEF Frames!OverRead, Complete, Begun

(* The frames used up by a call that has a frame: with a whole header it     *)
(* alone, else it and perhaps some behind it, of which a part may be read.   *)
LEMMA CompleteSeen ==
  ASSUME Followed, RecvComplete
  PROVE  Frames!revoltc_ws_recv(got'.frame, got'.result)
<1> DEFINE r == got'.result
<1>1. /\ UNCHANGED peer /\ Receives /\ reading /\ insync \in BOOLEAN
      /\ nrecv >= Size(Seen) /\ Seen \notin Refused
      /\ pos' \in 0 .. Len(out) /\ End(pos') <= Offset
      /\ insync' = (insync /\ Offset = End(pos'))
  BY DEF RecvComplete, UsedUp, Receives, Return, Followed, Exact, TypeOK
<1>2. \/ got' = [frame |-> Seen, result |-> "OK"]
      \/ /\ got' = [frame |-> Nothing, result |-> "INSUFFICIENT_DATA"]
         /\ nrecv < needed
  BY DEF RecvComplete, Return
<1>3. /\ Seen \in Replies /\ Size(Seen) \in Nat
      /\ Seen.op \in Frames!Opcodes
      /\ ~Frames!TooLong(Seen)
  <2>1. Seen \in Replies
    BY <1>1, SeenFacts DEF Followed
  <2> QED
    BY <1>1, <2>1, SizeFacts, SameFrames
<1>4. /\ Served \in Nat /\ Len(out) \in Nat /\ pos \in 0 .. Served
      /\ pos \in 0 .. Len(out)
      /\ \A q \in 0 .. Len(out) : End(q) <= sent => q <= Served
      /\ ~InFrame => Served = Len(out) /\ sent = End(Len(out))
      /\ InFrame => Len(out) > 0 /\ Served = Len(out) - 1
  <2>1. pos \in 0 .. Len(out)
    BY DEF Followed, Exact, TypeOK
  <2> QED
    BY <2>1, ServedFacts
<1>5. /\ Offset \in Nat /\ nrecv \in Nat /\ nrecv = Offset - start
      /\ Offset <= sent /\ nrecv <= needed /\ Offset >= taken
      /\ nrecv < needed => Offset = sent
      /\ sent \in Nat /\ start \in Nat /\ needed \in Nat /\ taken \in Nat
  <2>1. /\ Received \in Nat /\ Offset \in Nat /\ nrecv \in Nat
        /\ Offset = taken + Received /\ nrecv = Offset - start
        /\ Offset <= sent /\ nrecv <= needed
        /\ Received = needed - (taken - start) \/ Received = sent - taken
    BY <1>1, ReadFacts DEF Followed
  <2>2. sent \in Nat /\ start \in Nat /\ needed \in Nat /\ taken \in Nat
    BY DEF Followed, Exact, TypeOK
  <2> QED
    BY <2>1, <2>2
<1>6. PICK n \in Nat : /\ n = pos' /\ n <= Len(out) /\ n <= Served
                       /\ End(n) <= Offset /\ End(n) \in Nat
                       /\ n < Len(out) => Offset < End(n + 1)
  <2>1. End(pos') \in Nat
    BY <1>1 DEF Followed, Exact, Stream
  <2>2. pos' <= Served
    BY <1>1, <1>4, <1>5, <2>1
  <2>3. pos' < Len(out) => Offset < End(pos' + 1)
    BY DEF RecvComplete, UsedUp
  <2> QED
    BY <1>1, <1>4, <2>1, <2>2, <2>3
<1>7. /\ \A q \in 0 .. Len(out) : End(q) \in Nat
      /\ \A p, q \in 0 .. Len(out) : p < q => End(p) < End(q)
      /\ sent <= End(Len(out))
  BY DEF Followed, Exact, Stream
<1>a. /\ Len(out) \in Nat /\ pos \in Nat /\ pos <= Len(out)
      /\ Served \in Nat /\ Served <= Len(out)
  BY <1>4
<1>b. n <= Served /\ n <= Len(out)
  BY <1>6
<1>8. pos <= n
  <2>1. ASSUME n < pos PROVE FALSE
    <3>1. n + 1 \in 0 .. Len(out) /\ pos \in 0 .. Len(out) /\ n + 1 <= pos
      BY <1>a, <1>b, <2>1
    <3>2. End(n + 1) <= End(pos)
      BY <1>7, <3>1
    <3>3. End(pos) <= taken
      BY DEF Followed
    <3>4. End(n + 1) \in Nat /\ End(pos) \in Nat
      BY <1>7, <3>1
    <3>5. Offset < End(n + 1)
      BY <1>4, <1>6, <2>1, <3>1
    <3> QED
      BY <1>5, <3>2, <3>3, <3>4, <3>5
  <2> QED
    BY <1>4, <1>6, <2>1
<1>9. CASE ~insync
  <2>1. ~insync' /\ pos' \in pos .. Served
    BY <1>1, <1>4, <1>6, <1>8, <1>9
  <2>2. insync' \in BOOLEAN
    BY <1>1
  <2> QED
    BY <1>1, <1>2, <1>3, <1>4, <1>9, <2>1, <2>2, Garbage
<1>10. CASE insync
  <2>1. /\ pos + 1 \in 1 .. Len(out) /\ Seen = out[pos + 1].frame
        /\ start = End(pos) /\ End(pos + 1) = End(pos) + Size(Seen)
    BY <1>1, <1>10, SeenFacts DEF Followed
  <2>2. End(pos + 1) <= Offset
    <3>1. End(pos) \in Nat
      BY <1>4, <1>7 DEF Followed, Exact, TypeOK
    <3> QED
      BY <1>1, <1>3, <1>5, <2>1, <3>1
  <2>3. pos + 1 <= n
    <3>1. ASSUME n < pos + 1 PROVE FALSE
      <4>1. n = pos
        BY <1>4, <1>6, <1>8, <3>1
      <4>2. n < Len(out)
        BY <1>4, <2>1, <4>1
      <4>3. Offset < End(pos + 1)
        BY <1>6, <4>1, <4>2
      <4>4. End(pos + 1) \in Nat
        BY <1>7, <2>1
      <4> QED
        BY <1>5, <2>2, <4>3, <4>4
    <3> QED
      BY <1>4, <1>6, <3>1
  <2>4. /\ pos < Served /\ Len(Complete) = Served
        /\ Complete[pos + 1].op = Seen.op /\ Complete[pos + 1].data = Seen.data
        /\ Seen = [op |-> Seen.op, data |-> Seen.data]
    <3>1. pos < Served
      BY <1>4, <1>6, <2>3
    <3> QED
      BY <1>1, <1>10, <3>1, SeenArrives, CompleteFacts DEF CompleteType
  <2>5. insync' \in BOOLEAN /\ (insync' <=> Offset = End(n))
    BY <1>1, <1>6, <1>10
  <2>6. ~insync' => n < Served \/ Begun # "no"
    <3>1. ASSUME n = Served, ~InFrame PROVE Offset = End(n)
      <4>1. sent = End(n)
        BY <1>4, <3>1
      <4> QED
        BY <1>5, <1>6, <4>1
    <3> QED
      BY <1>4, <1>6, <2>5, <3>1 DEF Begun
  <2>7. CASE HeaderWhole /\ got' = [frame |-> Seen, result |-> "OK"]
    <3>1. pos' = pos + 1 /\ insync'
      BY <1>10, <2>7, CompleteExact DEF Followed
    <3>2. [h \in {conn} |-> pos'] = [[h \in {conn} |-> pos] EXCEPT ![conn] = pos + 1]
      BY <3>1
    <3>3. [h \in {conn} |-> insync'] = [h \in {conn} |-> insync]
      BY <1>1, <1>10, <2>5, <3>1
    <3>4. Frames!ReadFrame(Seen, "OK")
      BY <1>3, <2>4, <3>2, <3>3
      DEF Frames!ReadFrame, Frames!Pending, Frames!TooLong, Complete
    <3> QED
      BY <1>1, <1>10, <2>7, <3>4, FrameRead
  <2>8. CASE ~HeaderWhole /\ got' = [frame |-> Seen, result |-> "OK"]
    <3>1. Complete[pos + 1].split
      BY <1>4, <2>4, <2>8 DEF HeaderWhole, Complete
    <3>2. Frames!OverRead("OK")
      BY <1>6, <2>3, <2>4, <2>5, <2>6, <1>4, OverReadSeen
    <3>3. Frames!ReadFrame(Seen, "OK")
      BY <1>3, <2>4, <3>1, <3>2
      DEF Frames!ReadFrame, Frames!Pending, Frames!TooLong, Complete
    <3> QED
      BY <1>1, <1>10, <2>8, <3>3, FrameRead
  <2>9. CASE /\ got' = [frame |-> Nothing, result |-> "INSUFFICIENT_DATA"]
             /\ nrecv < needed
    <3>1. ~HeaderWhole
      <4>1. ASSUME HeaderWhole PROVE nrecv = needed
        <5>1. nrecv = needed \/ (nrecv <= Size(Seen) /\ needed = Size(Seen))
          BY <1>1, <1>10, <4>1, ExactFacts DEF Followed
        <5> QED
          BY <1>1, <1>3, <1>5, <5>1
      <4> QED
        BY <1>5, <2>9, <4>1
    <3>2. Complete[pos + 1].split
      BY <1>4, <2>4, <3>1 DEF HeaderWhole, Complete
    <3>3. Offset = sent
      BY <1>5, <2>9
    <3>4. InFrame => End(Served) < sent
      <4>1. InFrame => Len(out) \in 1 .. Len(out) /\ Served = Len(out) - 1
        BY <1>4
      <4> QED
        BY <4>1 DEF Followed, FrameStarted
    <3>5. n = Served
      <4>1. ASSUME n < Served PROVE FALSE
        <5>1. /\ n + 1 \in 0 .. Len(out) /\ Served \in 0 .. Len(out)
              /\ n + 1 <= Served /\ n < Len(out)
          BY <1>a, <1>b, <4>1
        <5>2. End(n + 1) <= End(Served) /\ End(n + 1) \in Nat /\ End(Served) \in Nat
          BY <1>7, <5>1
        <5>3. End(Served) <= sent
          BY <1>4, <1>5, <3>4, <5>2
        <5>4. sent < End(n + 1)
          BY <1>6, <3>3, <5>1
        <5> QED
          BY <1>5, <5>2, <5>3, <5>4
      <4> QED
        BY <1>4, <1>6, <4>1
    <3>6. Begun # "no" => ~insync'
      <4>1. Begun # "no" => InFrame
        BY DEF Begun
      <4>2. InFrame => End(n) < sent
        BY <3>4, <3>5
      <4> QED
        BY <1>5, <1>6, <2>5, <3>3, <4>1, <4>2
    <3>7. Frames!OverRead("INSUFFICIENT_DATA")
      BY <1>6, <2>3, <2>4, <2>5, <2>6, <1>4, <3>5, <3>6, OverReadSeen
    <3>8. Frames!ReadFrame(Nothing, "INSUFFICIENT_DATA")
      BY <1>3, <2>4, <3>2, <3>7, SameFrames
      DEF Frames!ReadFrame, Frames!Pending, Frames!TooLong, Complete
    <3> QED
      BY <1>1, <1>10, <2>9, <3>8, FrameRead
  <2> QED
    BY <1>2, <2>7, <2>8, <2>9
<1> QED
  BY <1>9, <1>10

-----------------------------------------------------------------------------
(* Every call of the byte-level reader returns what revoltc_ws_recv of       *)
(* Websocket allows at that moment, and nothing else it does is seen         *)
(* (562-646): for any frames and lengths, whole or split headers, memory     *)
(* that runs out and connections that go.                                    *)
THEOREM ImplementsRecvThm == Spec => ImplementsRecv
<1> DEFINE Step ==
      IF ~reading' /\ (reading \/ got' # got)
      THEN Frames!revoltc_ws_recv(got'.frame, got'.result)
      ELSE (Frames!Peer \/ UNCHANGED Frames!wsvars) /\ UNCHANGED got
<1>1. Followed /\ Followed' /\ [Next]_vars => [Step]_vars
  <2> SUFFICES ASSUME Followed, Followed', Next PROVE Step
    BY DEF vars
  <2> reading \in BOOLEAN
    BY DEF Followed, Exact, TypeOK
  <2>1. CASE Peer
    <3>1. UNCHANGED <<reading, got>>
      BY <2>1 DEF Peer, PeerBegins, PeerContinues, PeerDrops, reader
    <3>2. Frames!Peer \/ UNCHANGED Frames!wsvars
      BY <2>1, BeginSeen, ContinueSeen, DropSeen DEF Peer
    <3> QED
      BY <3>1, <3>2
  <2>2. CASE Begin
    <3>1. reading' /\ UNCHANGED got /\ UNCHANGED peer /\ UNCHANGED <<pos, insync>>
      BY <2>2 DEF Begin
    <3> QED
      BY <3>1, NothingSeen
  <2>3. CASE BeginWithoutMemory
    <3>1. /\ UNCHANGED peer /\ UNCHANGED <<pos, insync, reading>> /\ AllocMayFail
          /\ got' = [frame |-> Nothing, result |-> "NOMEM"]
      BY <2>3 DEF BeginWithoutMemory
    <3>2. UNCHANGED Frames!wsvars
      BY <3>1, NothingSeen
    <3>3. Frames!revoltc_ws_recv(Nothing, "NOMEM")
      BY <3>1, PeerUnseen, SameFrames
      DEF Frames!revoltc_ws_recv, Complete, Begun, peer
    <3> QED
      BY <2>3, <3>1, <3>2, <3>3 DEF BeginWithoutMemory
  <2>4. CASE RecvHeader \/ RecvPayload
    <3>1. reading /\ UNCHANGED <<reading, got>> /\ UNCHANGED peer
          /\ UNCHANGED <<pos, insync>>
      BY <2>4 DEF RecvHeader, RecvPayload, Receives
    <3> QED
      BY <3>1, NothingSeen
  <2>5. CASE RecvLost \/ RecvNothing \/ RecvRefused \/ RecvCannotGrow \/ RecvComplete
    <3>1. reading /\ ~reading'
      BY <2>5 DEF RecvLost, RecvNothing, RecvRefused, RecvCannotGrow, RecvComplete,
                  Receives, Return
    <3>2. Frames!revoltc_ws_recv(got'.frame, got'.result)
      BY <2>5, LostSeen, NoDataSeen, RefusedSeen, CannotGrowSeen, CompleteSeen
    <3> QED
      BY <3>1, <3>2
  <2> QED
    BY <2>1, <2>2, <2>3, <2>4, <2>5 DEF Next, Recv
<1> QED
  BY <1>1, FollowedAlways, PTL DEF Spec, ImplementsRecv
=============================================================================
