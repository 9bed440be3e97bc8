------------------------------ MODULE MqttMsg -------------------------------
(***************************************************************************)
(* mqtt/mqtt_msg.c: the messages of the MQTT client as bytes, and the      *)
(* reading of what the broker sends (mqtt_tcpclient_recv, mqtt.c:120-248,  *)
(* in MQTT_DATA).  A byte is a number, a string a sequence of bytes; what  *)
(* the C code has at buffer[i] is at b[i + 1] here.                        *)
(***************************************************************************)
EXTENDS Integers, Sequences, FiniteSets, FiniteSetsExt

CONSTANTS BufferLength,   \* bytes of out_buffer and of in_buffer (MQTT_BUF_SIZE)
          IdModulus,      \* message_id is a uint16: 2^16
          Publishes,      \* arguments of MQTT_Publish
          Topics,         \* topics subscribed to and unsubscribed from
          Infos,          \* connect_info of the client
          Acknowledged,   \* ids of packets that are acknowledged
          Incoming,       \* publications of the broker
          Together        \* publications that come in one segment (bound)

VARIABLES message_id,   \* connection->message_id
          message,      \* the message built last, <<>> if it failed
          request,      \* what that message was to say
          segment,      \* bytes of the TCP segment not yet looked at
          incoming,     \* the publications of that segment
          delivered,    \* what deliver_publish handed to mqttDataCb of them
          replies       \* ids of the acknowledgements queued for them

vars == <<message_id, message, request, segment, incoming, delivered, replies>>

NoRequest == [op |-> "none"]

Init ==
  /\ message_id = 0
  /\ message = <<>>
  /\ request = NoRequest
  /\ segment = <<>>
  /\ incoming = <<>>
  /\ delivered = <<>>
  /\ replies = <<>>

Type == [connect |-> 1, publish |-> 3, puback |-> 4, pubrec |-> 5, pubrel |-> 6,
         pubcomp |-> 7, subscribe |-> 8, unsubscribe |-> 10, pingreq |-> 12,
         pingresp |-> 13, disconnect |-> 14]

MAX_FIXED_HEADER_SIZE == 3

TwoBytes(n) == <<n \div 256, n % 256>>
String(s) == TwoBytes(Len(s)) \o s

\* append_string, append_message_id and the copies check the end of the buffer.
Fits(body) == MAX_FIXED_HEADER_SIZE + Len(body) <= BufferLength

Header(type, dup, qos, retain) == 16 * type + 8 * dup + 2 * (qos % 4) + (retain % 2)

\* Mutated form: the second byte of the length starts one too late.
RemainingShort(n) == IF n > 128 THEN <<128 + (n % 128), n \div 128>> ELSE <<n % 256>>

Remaining(n) == IF n > 127 THEN <<128 + (n % 128), (n \div 128) % 256>> ELSE <<n>>

\* fail_message and fini_message.
Fini(body, type, qos, retain) ==
  IF Fits(body)
  THEN <<Header(type, 0, qos, retain)>> \o Remaining(Len(body)) \o body
  ELSE <<>>

\* Zero is never an id.
NextId ==
  IF (message_id + 1) % IdModulus = 0 THEN 1 ELSE (message_id + 1) % IdModulus

\* message, request, incoming, delivered and replies are of the last call only.
Building ==
  /\ segment = <<>>
  /\ incoming' = <<>> /\ delivered' = <<>> /\ replies' = <<>>
  /\ UNCHANGED segment

mqtt_msg_publish ==
  \E p \in Publishes :
    LET id == IF p.qos > 0 THEN NextId ELSE 0
        body == String(p.topic) \o (IF p.qos > 0 THEN TwoBytes(id) ELSE <<>>) \o p.data
    IN /\ message_id' =
            IF p.qos > 0 /\ p.topic # <<>> /\ Fits(String(p.topic)) THEN id ELSE message_id
       /\ message' = IF p.topic = <<>> THEN <<>>
                     ELSE Fini(body, Type.publish, p.qos, p.retain)
       /\ request' = [op |-> "publish", body |-> body, what |-> p, id |-> id]
       /\ Building

mqtt_msg_subscribe ==
  \E op \in {"subscribe", "unsubscribe"}, topic \in Topics, qos \in 0 .. 2 :
    LET body == TwoBytes(NextId) \o String(topic)
                \o (IF op = "subscribe" THEN <<qos>> ELSE <<>>)
    IN /\ message_id' = IF topic = <<>> THEN message_id ELSE NextId
       /\ message' = IF topic = <<>> THEN <<>> ELSE Fini(body, Type[op], 1, 0)
       /\ request' = [op |-> op, body |-> body, what |-> [topic |-> topic], id |-> NextId]
       /\ Building

\* An id of 0 gets one of the client's own.
Acknowledgement(op, id) ==
  Fini(TwoBytes(IF id = 0 THEN NextId ELSE id), Type[op], IF op = "pubrel" THEN 1 ELSE 0, 0)

mqtt_msg_puback ==
  \E op \in {"puback", "pubrec", "pubrel", "pubcomp"}, id \in Acknowledged :
    /\ message' = Acknowledgement(op, id)
    /\ message_id' = IF id = 0 THEN NextId ELSE message_id
    /\ request' = LET own == IF id = 0 THEN NextId ELSE id
                  IN [op |-> op, body |-> TwoBytes(own), what |-> [topic |-> <<>>], id |-> own]
    /\ Building

mqtt_msg_pingreq ==
  \E op \in {"pingreq", "pingresp", "disconnect"} :
    /\ message' = Fini(<<>>, Type[op], 0, 0)
    /\ request' = [op |-> op, body |-> <<>>, what |-> [topic |-> <<>>], id |-> 0]
    /\ UNCHANGED message_id
    /\ Building

ConnectFlags(info) ==
  (IF info.username # <<>> THEN 128 ELSE 0) + (IF info.password # <<>> THEN 64 ELSE 0)
  + (IF info.will_topic # <<>> THEN 4 + 32 * info.will_retain + 8 * info.will_qos ELSE 0)
  + 2 * info.clean_session

IfAny(s) == IF s = <<>> THEN <<>> ELSE String(s)

\* PROTOCOL_NAMEv31: "MQIsdp", version 3.
ConnectBody(info) ==
  String(<<77, 81, 73, 115, 100, 112>>) \o <<3, ConnectFlags(info)>> \o TwoBytes(info.keepalive)
  \o String(info.client_id)
  \o (IF info.will_topic = <<>> THEN <<>>
      ELSE String(info.will_topic) \o String(info.will_message))
  \o IfAny(info.username) \o IfAny(info.password)

mqtt_msg_connect ==
  \E info \in Infos :
    /\ message' = IF info.client_id = <<>> THEN <<>>
                  ELSE Fini(ConnectBody(info), Type.connect, 0, 0)
    /\ request' = [op |-> "connect", body |-> ConnectBody(info),
                   what |-> [topic |-> info.client_id], id |-> 0]
    /\ message_id' = 0   \* mqtt_msg_init comes first
    /\ Building
-----------------------------------------------------------------------------
GetType(b) == b[1] \div 16
GetQos(b) == (b[1] % 8) \div 2

\* The loop over the bytes of the length field: its last byte, or the buffer's ...
LastOfLength(b, length) ==
  LET ends == {i \in 1 .. length - 1 : b[i + 1] < 128}
  IN IF ends = {} THEN length - 1 ELSE Min(ends)

\* ... and seven bits of each, the lowest first.
SevenBits(b, last) ==
  LET from[i \in 1 .. last + 1] ==
        IF i > last THEN 0 ELSE (b[i + 1] % 128) + 128 * from[i + 1]
  IN from[1]

LengthField(b, length) ==
  LET last == LastOfLength(b, length)
  IN [next |-> last + 1, value |-> SevenBits(b, last)]

mqtt_get_total_length(b, length) ==
  LengthField(b, length).value + LengthField(b, length).next

\* What comes behind the length field: offset of the topic and its length.
Topic(b, length) ==
  LET i == LengthField(b, length).next
  IN IF i + 2 >= length THEN [found |-> FALSE, at |-> 0, len |-> 0]
     ELSE [found |-> TRUE, at |-> i + 2, len |-> 256 * b[i + 1] + b[i + 2]]

Bytes(b, at, len) == SubSeq(b, at + 1, at + len)

\* A NULL for which *length is not set: the callback copies as many bytes from
\* address 0, which nobody sent.
FromNull(length) == [k \in 1 .. length |-> -1]

mqtt_get_publish_topic(b, length) ==
  LET t == Topic(b, length)
  IN IF ~t.found \/ t.at + t.len > length THEN FromNull(length) ELSE Bytes(b, t.at, t.len)

\* Where the payload begins, behind the topic and the id.
DataAt(b, length) ==
  LET t == Topic(b, length) IN t.at + t.len + (IF GetQos(b) > 0 THEN 2 ELSE 0)

mqtt_get_publish_data(b, length) ==
  LET t == Topic(b, length)
      total == mqtt_get_total_length(b, length)
      i == DataAt(b, length)
  IN IF t.found /\ t.at + t.len >= length THEN <<>>
     ELSE IF ~t.found \/ (GetQos(b) > 0 /\ i >= length) \/ total < i THEN FromNull(length)
     ELSE Bytes(b, i, (IF total <= length THEN total ELSE length) - i)

PublishId(b, length) ==
  LET t == Topic(b, length)
      i == t.at + t.len
  IN IF ~t.found \/ i >= length \/ GetQos(b) = 0 \/ i + 2 >= length
     THEN 0 ELSE 256 * b[i + 1] + b[i + 2]

\* UNSUBSCRIBE is not among the types that are looked at.
mqtt_get_id(b, length) ==
  CASE GetType(b) = Type.publish -> PublishId(b, length)
    [] GetType(b) \in {4, 5, 6, 7, 8, 9, 11} /\ length >= 4 /\ b[2] < 128 ->
         256 * b[3] + b[4]
    [] OTHER -> 0
-----------------------------------------------------------------------------
\* A publication as the broker frames it.
Framed(p) ==
  LET body == String(p.topic) \o (IF p.qos > 0 THEN TwoBytes(p.id) ELSE <<>>) \o p.data
  IN <<Header(Type.publish, 0, p.qos, 0)>> \o Remaining(Len(body)) \o body

\* A publication more in the segment that the receive callback gets; one that is
\* not shorter than MQTT_BUF_SIZE would be dropped.
Receive ==
  \E p \in Incoming :
    /\ segment' = segment \o Framed(p)
    /\ Len(segment') < BufferLength
    /\ IF segment = <<>> THEN incoming' = <<p>>
       ELSE delivered = <<>> /\ Len(incoming) < Together /\ incoming' = Append(incoming, p)
    /\ delivered' = <<>>
    /\ replies' = <<>>
    /\ message' = <<>>
    /\ request' = NoRequest
    /\ UNCHANGED message_id

\* Mutated form: the callback looks at one message only.
RestIgnored(b) == <<>>

\* What is left for the next round of READPACKET.
Rest(b) ==
  LET n == mqtt_get_total_length(b, Len(b))
  IN IF n < Len(b) THEN SubSeq(b, n + 1, Len(b)) ELSE <<>>

\* The segment is copied to the start of in_buffer; a whole message keeps its
\* reader from what is behind it.
InBuffer == [i \in 1 .. BufferLength |-> IF i <= Len(segment) THEN segment[i] ELSE 0]

\* One round of READPACKET.  The id is looked for in the whole in_buffer, so that
\* a message that ends with its id still has one.
ReadPacket ==
  /\ segment # <<>> /\ GetType(segment) = Type.publish
  /\ LET qos == GetQos(segment)
         id == mqtt_get_id(InBuffer, BufferLength)
     IN /\ delivered' = Append(delivered,
              [topic |-> mqtt_get_publish_topic(segment, Len(segment)),
               data |-> mqtt_get_publish_data(segment, Len(segment))])
        /\ segment' = Rest(segment)
        /\ replies' = IF qos = 0 THEN replies ELSE Append(replies, id)
        /\ message' = IF qos = 0 THEN message
                      ELSE Acknowledgement(IF qos = 1 THEN "puback" ELSE "pubrec", id)
        /\ message_id' = IF qos > 0 /\ id = 0 THEN NextId ELSE message_id
        /\ request' = NoRequest
  /\ UNCHANGED incoming

Next ==
  \/ mqtt_msg_publish \/ mqtt_msg_subscribe \/ mqtt_msg_puback
  \/ mqtt_msg_pingreq \/ mqtt_msg_connect
  \/ Receive \/ ReadPacket

Spec == Init /\ [][Next]_vars
-----------------------------------------------------------------------------
\* What the client builds is read back as what it was to say, by the functions
\* it reads the broker's messages with: length, type, topic, payload and id, on
\* both sides of the two-byte length.  A message that ends with its id has none for
\* mqtt_get_id, and no payload but a NULL without a length (mqtt_msg.c:213); an
\* UNSUBSCRIBE has no id, and neither has a SUBSCRIBE with a long topic.
MessageReadsBack ==
  message # <<>> /\ request # NoRequest =>
    /\ GetType(message) = Type[request.op]
    /\ mqtt_get_total_length(message, Len(message)) = Len(message)
    /\ request.op = "publish" =>
         /\ mqtt_get_publish_topic(message, Len(message)) = request.what.topic
         /\ request.what.data # <<>> \/ request.what.qos = 0 =>
              mqtt_get_publish_data(message, Len(message)) = request.what.data
         /\ GetQos(message) = request.what.qos
         /\ request.what.data # <<>> => mqtt_get_id(message, Len(message)) = request.id
    /\ request.op \in {"subscribe", "puback", "pubrec", "pubrel", "pubcomp"}
         /\ Len(request.body) < 128 =>
         mqtt_get_id(message, Len(message)) = request.id

\* The publications of one segment reach mqttDataCb one by one, each with its own
\* topic, and with its own payload unless it ends the segment, has no payload and
\* asks for an acknowledgement.  Those that ask for one are acknowledged, in order,
\* each with its own id.
PublicationsDelivered ==
  segment = <<>> =>
    /\ Len(delivered) = Len(incoming)
    /\ \A k \in DOMAIN delivered :
         /\ delivered[k].topic = incoming[k].topic
         /\ incoming[k].data # <<>> \/ incoming[k].qos = 0 \/ k < Len(incoming) =>
              delivered[k].data = incoming[k].data
    /\ \E asks \in [DOMAIN replies -> DOMAIN incoming] :
         /\ {asks[j] : j \in DOMAIN replies} = {k \in DOMAIN incoming : incoming[k].qos > 0}
         /\ \A i, j \in DOMAIN replies : i < j => asks[i] < asks[j]
         /\ \A j \in DOMAIN replies : replies[j] = incoming[asks[j]].id
=============================================================================
