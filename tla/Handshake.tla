------------------------------ MODULE Handshake ------------------------------
(***************************************************************************)
(* revoltc_ws_connect up to the upgrade of the connection (lib/core/       *)
(* websocket.c 16-98, 125-278, 322-350): the request, and the loop that    *)
(* finds the end of the response.  It must stop at exactly that byte, since *)
(* whatever it reads beyond it is dropped with its buffer; so it asks for  *)
(* as many bytes as the end is away at least, judging from a '\r' among    *)
(* the last three bytes it has.                                            *)
(*                                                                         *)
(* A byte of the response is "\r", "\n" or the name of the line it is in.  *)
(* A URL is a sequence of parts: the name of a scheme, "://", one of the   *)
(* characters : / ? #, or other text.                                      *)
(***************************************************************************)
EXTENDS Integers, Sequences, FiniteSets

CONSTANTS
  Answers,       \* for every URL the library may be given, what is answered there
  Early,         \* bytes of frames the peer may send right after its answer
  FirstNeeded,   \* needed at first: fewer bytes than any response has
  FirstSize,     \* buf_size at first
  AllocMayFail,  \* may malloc return NULL?
  MaxNeeded      \* bound: bytes the loop asks for

CR == "\r"
LF == "\n"
EndsAt(b, n) ==    \* do the first n bytes end with an empty line?
  n >= 4 /\ b[n - 3] = CR /\ b[n - 2] = LF /\ b[n - 1] = CR /\ b[n] = LF

ASSUME AnswersAssumption ==
  \A u \in DOMAIN Answers : LET b == Answers[u] IN
    /\ u \in Seq(STRING) /\ b \in Seq(STRING)
    /\ FirstNeeded <= Len(b) /\ EndsAt(b, Len(b))
    /\ \A n \in 4 .. Len(b) - 1 : ~EndsAt(b, n)
ASSUME EarlyAssumption == Early \in Seq(STRING)
ASSUME SizesAssumption ==
  /\ FirstNeeded \in Nat /\ FirstNeeded >= 4
  /\ FirstSize \in Nat /\ FirstSize >= FirstNeeded
  /\ MaxNeeded \in Nat
  /\ \A u \in DOMAIN Answers : Len(Answers[u]) + Len(Early) <= MaxNeeded
ASSUME AllocAssumption == AllocMayFail \in BOOLEAN

VARIABLES
  url,      \* ws->url
  request,  \* host and path in the request, once it has been sent
  stream,   \* what the peer sends: its answer and, it may be, early frames
  answer,   \* bytes of it that are the answer
  there,    \* bytes of it that have arrived
  link,     \* is the connection up, or closed by the peer?
  at,       \* where revoltc_ws_connect is
  nrecv,    \* bytes of the stream the loop has read
  needed,   \* needed
  buf_size, \* buf_size
  buf,      \* is the buffer not allocated, in use, freed or lost?
  short,    \* has a read brought fewer bytes than were asked for?
  result    \* what revoltc_ws_connect returned

request_vars == <<url, request>>
peer_vars == <<stream, answer, there, link>>
recv_vars == <<nrecv, needed, buf_size, buf, short>>
hvars == <<request_vars, peer_vars, at, recv_vars, result>>

-----------------------------------------------------------------------------
(* The URL helpers.  First: the least index from i on with one of the parts. *)
First(u, i, parts) ==
  LET js == {j \in i .. Len(u) : u[j] \in parts}
  IN IF js = {} THEN Len(u) + 1 ELSE CHOOSE j \in js : \A k \in js : j <= k

AfterScheme(u) == First(u, 1, {"://"}) + 1

url_get_host(u) ==
  SubSeq(u, AfterScheme(u), First(u, AfterScheme(u), {":", "/", "?", "#"}) - 1)

(* Faulty: keeps the '/' that the request line has already. *)
PathWithSlash(u) ==
  LET i == First(u, AfterScheme(u), {"/", "?"})
  IN SubSeq(u, i, First(u, i, {"#"}) - 1)

url_get_path(u) ==
  LET i == First(u, AfterScheme(u), {"/", "?"})
      j == IF i <= Len(u) /\ u[i] = "/" THEN i + 1 ELSE i
  IN SubSeq(u, j, First(u, j, {"#"}) - 1)

(* The scheme curl is given: ws and wss have its protocol and port. *)
url_normalize_scheme(u) ==
  LET behind(i) == SubSeq(u, i, Len(u))
      known == Len(u) >= 2 /\ u[2] = "://"
  IN IF known /\ u[1] \in {"http", "https"} THEN u
     ELSE IF known /\ u[1] = "ws" THEN <<"http">> \o behind(2)
     ELSE IF known /\ u[1] = "wss" THEN <<"https">> \o behind(2)
     ELSE IF Len(u) >= 1 /\ u[1] = "://" THEN <<"https">> \o u
     ELSE <<"https", "://">> \o u

-----------------------------------------------------------------------------
(* The lines of the answer begin where text does that no text goes before.   *)
LineStarts(b) ==
  {i \in 1 .. Len(b) : b[i] \notin {CR, LF} /\ (i = 1 \/ b[i - 1] \in {CR, LF})}

(* Faulty: one of the three fields will do. *)
AnyFieldValid(b) ==
  /\ Cardinality(LineStarts(b)) >= 4
  /\ b[1] = "status"
  /\ {b[i] : i \in LineStarts(b) \ {1}} \cap {"upgrade", "connection", "accept"} # {}

http_header_valid(b) ==
  /\ Cardinality(LineStarts(b)) >= 4
  /\ b[1] = "status"
  /\ {"upgrade", "connection", "accept"} \subseteq {b[i] : i \in LineStarts(b) \ {1}}

-----------------------------------------------------------------------------
(* The peer's answer arrives in pieces; frames may follow it at once.  What  *)
(* it sends after the call belongs to FrameReader.                           *)
Init ==
  /\ \E u \in DOMAIN Answers :
       /\ url = url_normalize_scheme(u)
       /\ answer = Len(Answers[u])
       /\ stream \in {Answers[u], Answers[u] \o Early}
  /\ request = [host |-> <<>>, path |-> <<>>]
  /\ there = 0 /\ link = "up"
  /\ at = "idle"
  /\ nrecv = 0 /\ needed = FirstNeeded /\ buf_size = FirstSize
  /\ buf = "none" /\ short = FALSE
  /\ result = "NONE"

Arrives ==
  /\ link = "up" /\ at \notin {"idle", "done"} /\ there < Len(stream)
  /\ there' \in there + 1 .. Len(stream)
  /\ UNCHANGED <<request_vars, stream, answer, link, at, recv_vars, result>>

Drops ==
  /\ link = "up" /\ at \notin {"idle", "done"}
  /\ link' = "closed"
  /\ UNCHANGED <<request_vars, stream, answer, there, at, recv_vars, result>>

Return(r) == at' = "done" /\ result' = r

(* The request.  Whichever way this ends, the strings it allocates are freed.*)
ws_handshake_send ==
  \/ AllocMayFail /\ Return("NOMEM") /\ UNCHANGED request
  \/ /\ request' = [host |-> url_get_host(url), path |-> url_get_path(url)]
     /\ \/ \E r \in {"TIMEOUT", "SEND", "CURL"} : Return(r)
        \/ at' = "alloc" /\ UNCHANGED result

(* curl_easy_init and curl_easy_perform go before it. *)
Connect ==
  /\ at = "idle"
  /\ \/ \E r \in {"CURL_INIT", "CURL"} : Return(r) /\ UNCHANGED request
     \/ ws_handshake_send
  /\ UNCHANGED <<url, peer_vars, recv_vars>>

Allocate ==
  /\ at = "alloc"
  /\ \/ AllocMayFail /\ Return("NOMEM") /\ UNCHANGED buf
     \/ buf' = "used" /\ at' = "recv" /\ UNCHANGED result
  /\ UNCHANGED <<request_vars, peer_vars, nrecv, needed, buf_size, short>>

Least(a, b) == IF a < b THEN a ELSE b

Received == Least(needed - nrecv, there - nrecv)
Offset == nrecv + Received

(* Faulty: does not look for the end of a line. *)
AsksForFour(n) == 4

(* Faulty: one off in every case. *)
AsksTooFew(n) ==
  IF stream[n - 2] = CR THEN 0
  ELSE IF stream[n - 1] = CR THEN 1
  ELSE IF stream[n] = CR THEN 2
  ELSE 3

(* How far away the end of the answer is at least, after n bytes. *)
More(n) ==
  IF stream[n - 2] = CR THEN 1
  ELSE IF stream[n - 1] = CR THEN 2
  ELSE IF stream[n] = CR THEN 3
  ELSE 4

(* realloc: the old buffer is gone from view when there is no memory.        *)
CannotGrow ==
  /\ at = "recv" /\ buf_size < needed /\ AllocMayFail
  /\ Return("NOMEM")
  /\ buf' = "lost"
  /\ UNCHANGED <<request_vars, peer_vars, nrecv, needed, buf_size, short>>

RecvFails ==
  /\ at = "recv"
  /\ \/ link = "closed" /\ Return("DISCONNECT")
     \/ Return("CURL")
  /\ buf' = "freed"
  /\ UNCHANGED <<request_vars, peer_vars, nrecv, needed, buf_size, short>>

Grown == IF buf_size < needed THEN needed + 1 ELSE buf_size

(* One more read.  That nothing has come is no error, and the loop asks for  *)
(* more bytes then, too.                                                     *)
Recv ==
  /\ at = "recv"
  /\ buf_size' = Grown
  /\ link = "up" \/ Received > 0
  /\ nrecv' = Offset
  /\ short' = (short \/ Offset < needed)
  /\ IF Offset < 4 \/ EndsAt(stream, Offset)
     THEN UNCHANGED needed
     ELSE needed' = Least(needed + More(Offset), MaxNeeded)
  /\ at' = IF EndsAt(stream, Offset) THEN "check" ELSE "recv"
  /\ UNCHANGED <<request_vars, peer_vars, buf, result>>

(* http_header_valid needs a copy of every line. *)
Check ==
  /\ at = "check"
  /\ \/ http_header_valid(SubSeq(stream, 1, nrecv)) /\ Return("OK")
     \/ ~http_header_valid(SubSeq(stream, 1, nrecv)) /\ Return("PARSE")
     \/ AllocMayFail /\ Return("PARSE")
  /\ buf' = "freed"
  /\ UNCHANGED <<request_vars, peer_vars, nrecv, needed, buf_size, short>>

revoltc_ws_connect == Connect \/ Allocate \/ CannotGrow \/ RecvFails \/ Recv \/ Check
HandshakePeer == Arrives \/ Drops

HandshakeNext == revoltc_ws_connect \/ HandshakePeer

(* The call goes on, but no error of curl is owed to it.                     *)
GoesOn == revoltc_ws_connect /\ result' # "CURL"

HandshakeSpec == Init /\ [][HandshakeNext]_hvars /\ WF_hvars(GoesOn)
-----------------------------------------------------------------------------
(* Types; no more is read than has come.                                     *)
HandshakeTypeOK ==
  /\ \E u \in DOMAIN Answers : url = url_normalize_scheme(u)
  /\ stream \in Seq(STRING)
  /\ answer \in 4 .. Len(stream) /\ there \in 0 .. Len(stream)
  /\ link \in {"up", "closed"}
  /\ at \in {"idle", "alloc", "recv", "check", "done"}
  /\ nrecv \in 0 .. there /\ needed \in Nat /\ buf_size \in Nat
  /\ buf \in {"none", "used", "freed", "lost"}
  /\ short \in BOOLEAN
  /\ result \in {"NONE", "OK", "CURL_INIT", "CURL", "NOMEM", "TIMEOUT", "SEND",
                 "DISCONNECT", "PARSE"}

(* The bytes asked for to find the end of the answer (248-261) never reach   *)
(* beyond it, so nothing of the first frames is read and dropped, as long as *)
(* every read brought all it was asked for.                                  *)
NothingSwallowed == nrecv > answer => short

(* What is read always goes into the buffer (234-241).                       *)
BytesFit == nrecv <= buf_size

(* connected is set behind a complete answer that switches protocols and has *)
(* all three fields, and nowhere else (263-266, 344-349).                    *)
UpgradedBehindAnswer ==
  result = "OK" =>
    /\ nrecv = answer
    /\ stream[1] = "status"
    /\ \A field \in {"upgrade", "connection", "accept"} :
         \E i \in 2 .. answer : stream[i] = field

(* The request asks the host for the path that the URL names, without its    *)
(* port and fragment (25-65).  A fragment right behind the host that has a   *)
(* '/' or '?' in it is excepted: url_get_path takes it for the path.         *)
RequestNamesUrl ==
  request.host # <<>> =>
    \E i, j, k \in 2 .. Len(url) :
      LET host == SubSeq(url, 3, i)
          port == SubSeq(url, i + 1, j)
          rest == SubSeq(url, j + 1, k)
          fragment == SubSeq(url, k + 1, Len(url))
          PartsOf(s) == {s[n] : n \in DOMAIN s}
      IN /\ i <= j /\ j <= k
         /\ PartsOf(host) \cap {":", "/", "?", "#"} = {}
         /\ port # <<>> => port[1] = ":"
         /\ PartsOf(port) \cap {"/", "?", "#"} = {}
         /\ rest # <<>> => rest[1] \in {"/", "?"}
         /\ "#" \notin PartsOf(rest)
         /\ fragment # <<>> => fragment[1] = "#"
         /\ request.host = host
         /\ \/ rest = (IF rest # <<>> /\ rest[1] = "/" THEN <<"/">> ELSE <<>>)
                       \o request.path
            \/ rest = <<>> /\ PartsOf(fragment) \cap {"/", "?"} # {}

(* Once the whole answer is there the call returns, in whatever pieces it    *)
(* came and however often the loop found nothing and asked for more, if no   *)
(* early frame confuses it.                                                  *)
ConnectReturns ==
  at # "idle" /\ there = answer ~> at = "done" \/ there > answer
=============================================================================
