----------------------------- MODULE MqttData ------------------------------
(***************************************************************************)
(* The data structures of the MQTT client: the ring (RingBuf) and the      *)
(* messages as bytes (MqttMsg).  They share no variable.                   *)
(***************************************************************************)
EXTENDS RingBuf

CONSTANTS BufferLength, IdModulus, Publishes, Topics, Infos,      \* of MqttMsg
          Acknowledged, Incoming, Together

uint16_t == 0 .. 65535

\* Ids and the keepalive are two bytes wide, a message is no longer than two bytes
\* of length can say, and a broker sends no empty topic.
ASSUME MessageAssumption ==
  /\ BufferLength \in Nat /\ BufferLength <= 16384 /\ IdModulus \in Nat \ {0} /\ IdModulus <= 65536
  /\ Publishes \subseteq [topic : Seq(Nat), data : Seq(Nat), qos : 0 .. 2, retain : 0 .. 1]
  /\ Topics \subseteq Seq(Nat) /\ Acknowledged \subseteq uint16_t
  /\ Infos \subseteq [client_id : Seq(Nat), username : Seq(Nat), password : Seq(Nat),
                      will_topic : Seq(Nat), will_message : Seq(Nat),
                      keepalive : uint16_t, will_qos : 0 .. 2, will_retain : 0 .. 1,
                      clean_session : 0 .. 1]
  /\ Incoming \subseteq [topic : Seq(Nat) \ {<< >>}, data : Seq(Nat), qos : 0 .. 2,
                         id : uint16_t]
-----------------------------------------------------------------------------
VARIABLES message_id, message, request, segment, incoming, delivered, replies

M == INSTANCE MqttMsg

msgVars == <<message_id, message, request, segment, incoming, delivered, replies>>
MessagesSpec == M!Init /\ [][M!Next]_msgVars

MessageReadsBack == M!MessageReadsBack
PublicationsDelivered == M!PublicationsDelivered
=============================================================================
