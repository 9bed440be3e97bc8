----------------------------- MODULE MCMqttData -----------------------------
(* The data structures of the MQTT client, one at a time: RingBuf on a block *)
(* of four slots and three byte values; MqttMsg with a buffer of 140 bytes,  *)
(* so that messages end on both sides of 127 bytes and of the buffer; and    *)
(* FrameQueue on a ring of eight bytes, with an empty message, a plain one,  *)
(* one with all three special bytes in it, one that needs escapes to the     *)
(* last byte, and one whose frame is longer than the ring.                   *)
EXTENDS MqttData, FrameQueue

\* A string of n bytes b.
Run(n, b) == [i \in 1 .. n |-> b]

MCPublishes ==
  [topic : {<<>>, Run(2, 116)}, data : {Run(n, 33) : n \in {0, 1, 120, 121, 122, 123, 124, 130}},
   qos : 0 .. 2, retain : {0, 1}]
  \cup [topic : {Run(133, 116), Run(134, 116), Run(136, 116)}, data : {<<>>},
        qos : {0, 1}, retain : {0}]

MCTopics == {<<>>, Run(1, 47)} \cup {Run(n, 47) : n \in 131 .. 135}

MCInfos ==
  [client_id : {<<>>, Run(3, 105)}, username : {<<>>, Run(2, 117)},
   password : {<<>>, Run(100, 112), Run(110, 112)}, will_topic : {<<>>, Run(2, 119)},
   will_message : {<<>>, Run(4, 109)}, keepalive : {120, 600}, will_qos : {0, 2},
   will_retain : {0, 1}, clean_session : {0, 1}]

MCAcknowledged == {0, 1, 256, 65535}

Pub(t, d, q, i) == [topic |-> t, data |-> d, qos |-> q, id |-> i]

MCIncoming ==
  {Pub(Run(2, 97), Run(3, 98), 0, 0), Pub(<<97>>, Run(30, 98), 1, 258),
   Pub(<<97>>, <<>>, 0, 0), Pub(<<99>>, <<>>, 1, 7), Pub(<<97>>, Run(125, 98), 2, 3)}

MCPackets == {<< >>, <<1>>, <<127>>, <<1, 126>>, <<1, 2, 3>>,
              <<125, 126, 127, 1>>}

\* Which of the three is looked at.
VARIABLE part

MCInit == RINGBUF_Init /\ M!Init /\ Init /\ part \in {"ring", "messages", "frames"}

Frames(A) == part = "frames" /\ A /\ UNCHANGED <<ringVars, msgVars, part>>

MCNext ==
  \/ part = "ring" /\ RingNext /\ UNCHANGED <<msgVars, vars, part>>
  \/ part = "messages" /\ M!Next /\ UNCHANGED <<ringVars, vars, part>>
  \/ Frames(Next)

MCVars == <<ringVars, msgVars, vars, part>>

\* The loops of FrameQueue run to their end.
MCSpec == MCInit /\ [][MCNext]_MCVars /\ WF_MCVars(Frames(Loop))
=============================================================================
