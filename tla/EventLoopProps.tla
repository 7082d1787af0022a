--------------------------- MODULE EventLoopProps ---------------------------
(***************************************************************************)
(* What the event loop promises, and the specifications it implements.     *)
(***************************************************************************)
EXTENDS EventLoop

(* Types; the Websocket part is WsTypeOK. *)
LoopTypeOK ==
  /\ tx \in Seq([op : AppOps, data : Msgs]) /\ Len(tx) <= TxSize
  /\ last \in 0 .. MaxMsgs
  /\ cbs \in SUBSET Slots
  /\ running \in BOOLEAN
  /\ pc \in InLoop \cup {"idle", "connect", "auth", "start", "stop", "exit"}
  /\ rx \in Replies \cup {NoFrame}
  /\ res \in Results
  /\ main \in {"setup", "wait", "join", "joined", "done"}
  /\ runs \in 0 .. MaxRuns

TypeOK == WsTypeOK /\ LoopTypeOK

IsAuth(f) == f.data = AUTH
IsApp(f) == f.op # "CLOSE" /\ ~IsAuth(f)

(* The server accepts nothing before Authenticate: on every connection, the  *)
(* first one and each one poll opens after losing another, a queued message  *)
(* or a pong is only written after a complete Authenticate message           *)
(* (revolt_ws_connect 47-69, revolt_ws_poll 275-283).                        *)
AuthBeforeTraffic ==
  \A h \in Handles : \A i \in 1 .. Len(wire[h]) :
    IsApp(wire[h][i]) =>
      \E j \in 1 .. (i - 1) : IsAuth(wire[h][j]) /\ wire[h][j].whole

(* A connection is authenticated at most once per revolt_run: again only     *)
(* when a later run finds it still open (revoltc_ws_connect returns OK at    *)
(* once), which is how the server may see the token twice.  Only a           *)
(* disconnect that had no memory leaves a connection open for poll.          *)
AuthsOn(h) == {i \in 1 .. Len(wire[h]) : IsAuth(wire[h][i])}
AuthOncePerRun ==
  ~AllocMayFail => \A h \in Handles : Cardinality(AuthsOn(h)) <= runs

(* After a frame that went out partly the peer reads the next one as its     *)
(* rest.  The loop ends on such an error, so what can follow is the CLOSE of *)
(* a disconnect, the Authenticate of a later run, or anything if the partial *)
(* frame was a pong, whose failure revolt_ws_poll ignores (ws.c 162-180).    *)
PartialFrameEnds ==
  \A h \in Handles : \A i \in 1 .. (Len(wire[h]) - 1) :
    ~wire[h][i].whole =>
      \/ wire[h][i].op = "PONG"
      \/ wire[h][i + 1].op = "CLOSE"
      \/ IsAuth(wire[h][i + 1])

(* Pongs go out on the connection their ping came in on, in the order of the *)
(* pings, one each at most: the answers written to an open connection are a  *)
(* subsequence of the pings read from it, even though other messages wait in *)
(* the stack and the connection may be lost and replaced in between.  A pong *)
(* the application queues is no answer.                                      *)
Answering(w) == {i \in 1 .. Len(w) : w[i].op = "PONG" /\ w[i].data \notin Msgs}
Answers(w, s, n) ==
  \E at \in [Answering(w) -> 1 .. n] :
    /\ \A i \in Answering(w) : s[at[i]].op = "PING" /\ s[at[i]].data = w[i].data
    /\ \A i, j \in Answering(w) : i < j => at[i] < at[j]
PongsAnswerPings ==
  \A h \in Handles :
    Upgraded(h) /\ insync[h] => Answers(wire[h], srv[h], pos[h])

(* A curl handle is only lost when a later revolt_run replaces one whose     *)
(* connection attempt failed: however often poll reconnects, within one run  *)
(* nothing leaks.                                                            *)
Lost == {h \in Handles : hs[h] = "raw" /\ h # hnd}
LostAcrossRunsOnly ==
  runs > 0 => Cardinality(Lost) <= runs - 1

(* Every message is transmitted at most once, and never while it waits.      *)
Carriers(m) ==
  {p \in Handles \X (1 .. MaxWire) :
     p[2] <= Len(wire[p[1]]) /\ wire[p[1]][p[2]].data = m}
AtMostOnce ==
  \A m \in Msgs :
    Cardinality(Carriers(m)) + Cardinality({i \in 1 .. Len(tx) : tx[i].data = m})
      <= 1

-----------------------------------------------------------------------------
(* The event loop uses one RevoltcWS as its callers may: every step is a     *)
(* step of Websocket or leaves it alone, so what holds of Websocket holds    *)
(* here.  In particular neither thread uses the object after                 *)
(* revolt_cleanup has freed it.                                              *)
UsesWebsocket == WsInit /\ [][WsNext]_wsvars

(* The message stack is an Outbox, as long as the client lives: see there.   *)
(* Nothing empties the stack but sends and revolt_cleanup, whatever happens  *)
(* to connections and runs, and a send that loses its message fails the run. *)
OutboxSpec == INSTANCE Outbox WITH
  accepted <- last,
  queued <- {tx[i].data : i \in 1 .. Len(tx)},
  sent <- {m \in 1 .. last :
             \E c \in Carriers(m) : wire[c[1]][c[2]].whole},
  failed <- res # "OK",
  deleted <- main = "done"
ImplementsOutbox == OutboxSpec!Spec

-----------------------------------------------------------------------------
(* The assumption of the liveness properties: no call into the network       *)
(* blocks for ever.                                                          *)
NetworkReturns == []<>~Stalled /\ []<>(pc \notin {"connect", "reconnect"})

(* revolt_stop is honoured when it comes while the loop runs: the thread     *)
(* leaves the loop and the join completes.                                   *)
StopHonoured ==
  NetworkReturns =>
    ((main = "join" /\ pc \in InLoop /\ ~running) ~> main = "joined")

(* While messages wait and the loop runs, the loop keeps taking them off the *)
(* stack, until it is empty or the run ends: no state of the connection, of  *)
(* the callbacks or of a reconnect stops the sending for good.  Of the n     *)
(* accepted so far all have then left it, unless more are queued meanwhile.  *)
(* It is no promise to a single message: the newest goes first (ws.c         *)
(* 238-250), and a callback that queues one for every frame received keeps   *)
(* the oldest waiting for as long as frames come.                            *)
Taken == last - Len(tx)
KeepsSending ==
  NetworkReturns =>
    \A k \in 0 .. MaxMsgs :
      (pc \in InLoop /\ tx # <<>> /\ Taken = k) ~> (pc = "exit" \/ Taken > k)

(* A CLOSE from the peer ends the run, where any other loss of the           *)
(* connection is followed by a reconnect: after on_close the next poll finds *)
(* no connection.                                                            *)
CloseEndsRun ==
  NetworkReturns /\ ~AllocMayFail => (pc = "close2" ~> pc = "exit")

(* What playground/main.c takes for granted: once it has called revolt_stop, *)
(* pthread_join returns.                                                     *)
JoinReturns == NetworkReturns => (main = "join" ~> main = "joined")

(* What the guard of revolt_ws_send takes for granted: tx has room for       *)
(* tx_size entries.  revolt_ws_new allocates tx_size bytes, and an entry     *)
(* takes 24 of them on a 64-bit build.                                       *)
EntryBytes == 24
StackFits == Len(tx) * EntryBytes <= TxSize
=============================================================================
