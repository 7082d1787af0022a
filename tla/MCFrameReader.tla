---------------------------- MODULE MCFrameReader ----------------------------
(* FrameReader on frames with each length of header; offsets stay small      *)
(* because payloads do: only whether a header and a frame are complete       *)
(* matters to the reader.                                                    *)
EXTENDS FrameReaderProps

CONSTANTS tiny, mid, big

MCData == {tiny, mid, big}
MCLong == {mid, big}
MCNothing == [op |-> "NONE", data |-> NULL]
Frame(op, data) == [op |-> op, data |-> data]
ThreeKinds == {Frame("TEXT", tiny), Frame("TEXT", mid), Frame("PING", mid)}
FewKinds == {Frame("TEXT", tiny), Frame("PING", mid), Frame("TEXT", big)}
MCHeaderLen == [f \in Replies |-> IF f.data = tiny THEN 2
                                  ELSE IF f.data = mid THEN 4 ELSE 10]
MCPayloadLen == [f \in Replies |-> IF f.data = tiny THEN 1 ELSE 2]
MCLarge == {f \in Replies : f.data \in Long}
MCRefused == {f \in MCLarge : f.op = "PING"}
=============================================================================
