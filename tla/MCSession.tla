------------------------------ MODULE MCSession ------------------------------
(* Session with lines of one to three bytes.  FirstNeeded and FirstSize keep *)
(* to their places in the library: below the length of any answer (100 bytes *)
(* there, an answer has 129 at least) and somewhere among them (256).        *)
EXTENDS Session, SequencesExt

Line(name, n) == [i \in 1 .. n |-> name] \o <<CR, LF>>
Answer(lines) == FlattenSeq(lines) \o <<CR, LF>>

Good == << Line("status", 1), Line("upgrade", 1), Line("connection", 1), Line("accept", 3) >>
Longer == << Line("status", 1), Line("accept", 1), Line("other", 1), Line("upgrade", 1),
             Line("connection", 1) >>
Refused == << Line("other", 2), Line("upgrade", 1), Line("connection", 1), Line("accept", 1) >>
Partial == << Line("status", 1), Line("upgrade", 1), Line("other", 2), Line("accept", 1) >>

MCAnswers ==
  ( <<"wss", "://", "h">> :> Answer(Good) ) @@
  ( <<"ws", "://", "h", ":", "8", "/", "p", "?", "q">> :> Answer(Longer) ) @@
  ( <<"https", "://", "h", "?", "q", "#", "f">> :> Answer(Refused) ) @@
  ( <<"http", "://", "h", "/", "p", "/", "q", "#", "f">> :> Answer(Partial) ) @@
  ( <<"://", "h", "#", "f", "/">> :> Answer(Refused) )

MCEarly == << "x", CR >>

Frame(opcode, len, masked, key, index) ==
  [opcode |-> opcode, len |-> len, masked |-> masked, key |-> key,
   index |-> index, byte |-> 165]
MCOutgoing ==
  { Frame(c, n, 1, 16909060, i) : c \in {1, 9}, n \in {6, 125, 126}, i \in {0, 5} } \cup
  { Frame(1, n, 1, 2147483647, 5) : n \in {125, 65535, 65536} } \cup
  { Frame(2, n, m, 0, 0) : n \in {0, 126, 70000}, m \in {0, 1} }
=============================================================================
