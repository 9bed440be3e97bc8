-------------------------- MODULE MqttClientProofs --------------------------
(***************************************************************************)
(* Theorems about MqttClient, for all timeouts, queue sizes, kinds of host, *)
(* brokers and numbers of abandoned connections.  The safety properties are *)
(* inductive together once three facts about the SDK's side are added: NULL *)
(* has no connection, nothing is in flight or greeted without one, and of   *)
(* the messages lost to NULL all but those that an orphan's callback let    *)
(* through have left sendTimeout up.                                        *)
(***************************************************************************)
EXTENDS MqttClient, SequenceTheorems, TLAPS

\* MQTT_Disconnect leaves no connection of the client's behind.
NullHasNoConnection == ~pCon => tcp = "none"

\* Sends and the CONNECT belong to an open connection.
OnlyOpenCarries == tcp # "open" => inflight = 0 /\ greeted = "no"

\* What went through NULL holds the task back, until an orphan's sent callback.
LossHoldsTask ==
  /\ pCon => lost = 0
  /\ lost <= late + (IF sendTimeout > 0 THEN 1 ELSE 0)

LossInv == OutageLosesOne /\ LossHoldsTask

LinkInv == NullHasNoConnection /\ OnlyOpenCarries /\ DataMeansSession

IInv == /\ TypeOK
        /\ TimerHasConnection
        /\ LinkInv
        /\ ConnackIsExpected
        /\ ReconnectIsPosted
        /\ LossInv

USE TimeoutAssumption

\* What publishing leaves in the queue are messages, and they fit.
LEMMA PublishingFits ==
  ASSUME NEW burst \in Seq(Outgoing), queue \in Seq(Outgoing),
         NEW q \in AfterPublishing(burst)
  PROVE  q \in Seq(Outgoing) /\ Len(q) <= QueueCap
<1> DEFINE all == queue \o burst
<1>1. all \in Seq(Outgoing) /\ Len(all) \in Nat
  OBVIOUS
<1>2. CASE Len(all) <= QueueCap
  BY <1>1, <1>2 DEF AfterPublishing
<1>3. CASE Len(all) > QueueCap
  <2>1. PICK k \in Len(all) - QueueCap + 1 .. Len(all) + 1 :
              q = SubSeq(all, k, Len(all))
    BY <1>1, <1>3 DEF AfterPublishing
  <2> HIDE DEF all
  <2>2. k \in 1 .. Len(all) + 1
    BY <1>1, <1>3, <2>1
  <2>3. q \in Seq(Outgoing)
    BY <1>1, <2>1, <2>2, SubSeqProperties
  <2>4. Len(q) <= QueueCap
    BY <1>1, <1>3, <2>1, <2>2, SubSeqProperties
  <2>5. QED
    BY <2>3, <2>4
<1>4. QED
  BY <1>1, <1>2, <1>3

\* A reply is queued only where there is room.
LEMMA ReplyFits ==
  ASSUME queue \in Seq(Outgoing), Len(queue) <= QueueCap, NEW m \in Outgoing
  PROVE  AfterReply(m) \in Seq(Outgoing) /\ Len(AfterReply(m)) <= QueueCap
BY DEF AfterReply

\* espconn_sent stays within the SDK's bound and needs an open connection.
LEMMA SentInBounds ==
  ASSUME inflight \in 0 .. MaxInflight, Sent
  PROVE  /\ inflight' \in 0 .. MaxInflight
         /\ tcp # "open" => inflight' = inflight
BY DEF Sent, MaxInflight

\* What becomes of an orphan is an orphan.
Orphan == [tcp : {"dialing", "open"}, inflight : 0 .. MaxInflight,
           greeted : {"no", "sent", "acked"}]

LEMMA OrphanGoesOn ==
  ASSUME orphans \subseteq Orphan, NEW o \in orphans,
         \/ Becomes(o, [o EXCEPT !.tcp = "open"])
         \/ o.inflight > 0 /\ Becomes(o, [o EXCEPT !.inflight = @ - 1])
         \/ Becomes(o, [o EXCEPT !.greeted = "acked"])
         \/ orphans' = orphans \ {o}
  PROVE  orphans' \subseteq Orphan
<1>1. o \in Orphan
  OBVIOUS
<1>2. /\ [o EXCEPT !.tcp = "open"] \in Orphan
      /\ o.inflight > 0 => [o EXCEPT !.inflight = @ - 1] \in Orphan
      /\ [o EXCEPT !.greeted = "acked"] \in Orphan
  BY <1>1 DEF Orphan, MaxInflight
<1> QED
  BY <1>2 DEF Becomes

\* So is a connection that is abandoned.
LEMMA AbandonedIsOrphan ==
  ASSUME TypeOK, Abandoned
  PROVE  orphans' \subseteq Orphan
<1>1. tcp # "none" => Connection(tcp, inflight, greeted) \in Orphan
  BY DEF TypeOK, Connection, Orphan
<1> QED
  BY <1>1 DEF TypeOK, Abandoned, Orphan

\* Whatever MQTT_Connect dials, and whether it is a name, keeps its type.
LEMMA ConnectTypes ==
  ASSUME TypeOK, MQTT_Connect
  PROVE  /\ pCon' \in BOOLEAN /\ timer' \in BOOLEAN /\ ip' \in BOOLEAN
         /\ keepAliveTick' = 0 /\ reconnectTick' = 0
         /\ connState' \in ConnState
         /\ tcp' \in {"none", "dialing"} /\ inflight' = 0 /\ greeted' = "no"
         /\ dns' \in 0 .. MaxDns /\ orphans' \subseteq Orphan
         /\ stray' \in BOOLEAN /\ barren' \in BOOLEAN
         /\ lost' = 0 /\ late' = 0
<1>1. orphans' \subseteq Orphan
  BY AbandonedIsOrphan DEF MQTT_Connect
<1>2. pCon' \in BOOLEAN /\ timer' \in BOOLEAN /\ stray' \in BOOLEAN
  BY Zenon DEF MQTT_Connect, ArmTimer
<1>3. barren' \in BOOLEAN
  BY DEF MQTT_Connect, Dial
<1>4. ip' \in BOOLEAN
  BY Zenon DEF TypeOK, MQTT_Connect, Dial
<1>5. dns' \in 0 .. MaxDns /\ tcp' \in {"none", "dialing"}
  BY DEF TypeOK, MQTT_Connect, Dial, MaxDns
<1> QED
  BY <1>1, <1>2, <1>3, <1>4, <1>5 DEF MQTT_Connect, ConnState

\* The program starts in the invariant.
LEMMA InitHolds == Init => IInv
<1> SUFFICES ASSUME Init PROVE IInv
  OBVIOUS
<1>1. TypeOK
  <2>1. /\ pCon \in BOOLEAN /\ timer \in BOOLEAN
        /\ posted \in BOOLEAN /\ linked \in BOOLEAN /\ ip \in BOOLEAN
        /\ stray \in BOOLEAN /\ barren \in BOOLEAN
    BY Zenon DEF Init
  <2>2. QED
    BY <2>1 DEF Init, TypeOK, ConnState, MaxInflight, MaxDns
<1>2. QED
  BY <1>1 DEF Init, IInv, TimerHasConnection, LinkInv, NullHasNoConnection,
       OnlyOpenCarries, DataMeansSession, ConnackIsExpected,
       ReconnectIsPosted, LossInv, OutageLosesOne, LossHoldsTask

\* Every step keeps the types.
LEMMA TypeStep == TypeOK /\ [Next]_vars => TypeOK'
<1> SUFFICES ASSUME TypeOK, [Next]_vars PROVE TypeOK'
  OBVIOUS
<1>0. hostIsName' \in BOOLEAN
  BY DEF TypeOK, Next, SameHost, vars
<1> USE <1>0 DEF TypeOK, ConnState, MaxInflight, MaxDns
<1>1. CASE WifiGotIp
  <2>1. linked' \in BOOLEAN
    BY <1>1, Zenon DEF WifiGotIp
  <2> QED
    BY <1>1, <2>1, ConnectTypes DEF WifiGotIp, Orphan
<1>2. CASE WifiLost
  <2>1. pCon' \in BOOLEAN /\ timer' \in BOOLEAN /\ linked' \in BOOLEAN
    BY <1>2, Zenon DEF WifiLost, MQTT_Disconnect
  <2>2. orphans' \subseteq Orphan
    BY <1>2, AbandonedIsOrphan DEF WifiLost, MQTT_Disconnect
  <2> QED
    BY <1>2, <2>1, <2>2 DEF WifiLost, MQTT_Disconnect, Closed, Orphan, history
<1>3. CASE DnsFailed
  BY <1>3 DEF DnsFailed, Retry, conn, history
<1>4. CASE DnsFound
  <2>1. barren' \in BOOLEAN /\ posted' \in BOOLEAN
    BY <1>4 DEF DnsFound, Post
  <2> QED
    BY <1>4, <2>1 DEF DnsFound
<1>5. CASE DnsFoundTooLate
  <2>1. /\ pCon' \in BOOLEAN /\ timer' \in BOOLEAN
        /\ posted' \in BOOLEAN /\ linked' \in BOOLEAN /\ ip' \in BOOLEAN
        /\ stray' \in BOOLEAN /\ barren' \in BOOLEAN
    BY <1>5, Zenon DEF DnsFoundTooLate
  <2> QED
    BY <1>5, <2>1 DEF DnsFoundTooLate
<1>6. CASE TcpConnected
  <2>1. posted' \in BOOLEAN /\ stray' \in BOOLEAN
    BY <1>6, Zenon DEF TcpConnected, Greet, Post
  <2> QED
    BY <1>6, <2>1 DEF TcpConnected, Greet, MaxInflight
<1>7. CASE TcpLost
  BY <1>7 DEF TcpLost, Reconnect, Retry, Post, Closed, history
<1>8. CASE SentCb
  BY <1>8 DEF SentCb, TaskIsFree, Post, MaxInflight
<1>9. CASE RecvConnack
  <2>1. Announcement \in Seq(Outgoing)
    BY DEF Announcement, Outgoing
  <2>2. queue' \in Seq(Outgoing) /\ Len(queue') <= QueueCap
    BY <1>9, <2>1, PublishingFits DEF RecvConnack, Connack
  <2>3. posted' \in BOOLEAN /\ stray' \in BOOLEAN
    BY <1>9, Zenon DEF RecvConnack, Connack, Post
  <2> QED
    BY <1>9, <2>2, <2>3 DEF RecvConnack, Connack
<1>10. ASSUME NEW m \in BrokerSends, Recv(m) PROVE TypeOK'
  <2>1. queue' \in Seq(Outgoing) /\ Len(queue') <= QueueCap
    BY <1>10, ReplyFits DEF Recv, Packet, ReplyTo, Outgoing
  <2> QED
    BY <1>10, <2>1 DEF Recv, Packet, Post, sdk, conn, history
<1>11. ASSUME NEW o \in orphans, OrphanConnected(o) PROVE TypeOK'
  <2>1. orphans' \subseteq Orphan
    BY <1>11, OrphanGoesOn DEF OrphanConnected, Orphan
  <2>2. posted' \in BOOLEAN /\ stray' \in BOOLEAN
    BY <1>11, Zenon DEF OrphanConnected, Greet, Post
  <2>3. inflight' \in 0 .. MaxInflight /\ greeted' \in {"no", "sent", "acked"}
    BY <1>11, SentInBounds DEF OrphanConnected
  <2> QED
    BY <1>11, <2>1, <2>2, <2>3 DEF OrphanConnected, Greet, Orphan
<1>12. ASSUME NEW o \in orphans, OrphanLost(o) PROVE TypeOK'
  <2>1. orphans' \subseteq Orphan
    BY <1>12, OrphanGoesOn DEF OrphanLost, Orphan
  <2> QED
    BY <1>12, <2>1 DEF OrphanLost, Reconnect, Retry, Post, conn, history, Orphan
<1>13. ASSUME NEW o \in orphans, OrphanSent(o) PROVE TypeOK'
  <2>1. orphans' \subseteq Orphan
    BY <1>13, OrphanGoesOn DEF OrphanSent, Orphan
  <2> QED
    BY <1>13, <2>1 DEF OrphanSent, TaskIsFree, Post, Orphan
<1>14. ASSUME NEW o \in orphans, OrphanConnack(o) PROVE TypeOK'
  <2>1. orphans' \subseteq Orphan
    BY <1>14, OrphanGoesOn DEF OrphanConnack, Orphan
  <2>2. Announcement \in Seq(Outgoing)
    BY DEF Announcement, Outgoing
  <2>3. queue' \in Seq(Outgoing) /\ Len(queue') <= QueueCap
    BY <1>14, <2>2, PublishingFits DEF OrphanConnack, Connack
  <2>4. stray' \in BOOLEAN
    BY <1>14 DEF OrphanConnack
  <2> QED
    BY <1>14, <2>1, <2>3, <2>4 DEF OrphanConnack, Connack, Post, Orphan
<1>15. ASSUME NEW o \in orphans, NEW m \in BrokerSends, OrphanRecv(o, m) PROVE TypeOK'
  <2>1. queue' \in Seq(Outgoing) /\ Len(queue') <= QueueCap
    BY <1>15, ReplyFits DEF OrphanRecv, Packet, ReplyTo, Outgoing
  <2> QED
    BY <1>15, <2>1 DEF OrphanRecv, Packet, Post, sdk, conn, history
<1>16. ASSUME NEW o \in orphans, OrphanForgotten(o) PROVE TypeOK'
  <2>1. orphans' \subseteq Orphan
    BY <1>16, OrphanGoesOn DEF OrphanForgotten, Orphan
  <2> QED
    BY <1>16, <2>1 DEF OrphanForgotten, client, conn, history, Orphan
<1>17. CASE TimerTick
  BY <1>17 DEF TimerTick, CountDown, sdk, conn, history
<1>18. CASE TimerPing
  BY <1>18, SentInBounds DEF TimerPing, CountDown, Post, history
<1>19. CASE TimerReconnect
  BY <1>19 DEF TimerReconnect, CountDown, Post, sdk, conn, history
<1>20. CASE MQTT_Task
  <2>0. posted' \in BOOLEAN
    BY <1>20, Zenon DEF MQTT_Task
  <2>1. CASE Sending /\ SendQueued
    <3>1. /\ Head(queue) \in Outgoing
          /\ Tail(queue) \in Seq(Outgoing) /\ Len(Tail(queue)) <= QueueCap
      BY <2>1, HeadTailProperties DEF SendQueued
    <3> QED
      BY <1>20, <2>0, <2>1, <3>1, SentInBounds DEF MQTT_Task, SendQueued, Sending
  <2>2. CASE Sending /\ (queue = << >> \/ sendTimeout # 0) /\ ~SendQueued
    BY <1>20, <2>0, <2>2 DEF MQTT_Task, Sending, sdk, conn, history
  <2>3. CASE connState = "TCP_RECONNECT"
    <3>1. MQTT_Connect /\ UNCHANGED <<sendTimeout, pending, queue, linked>>
      BY <1>20, <2>3 DEF MQTT_Task, Sending
    <3> QED
      BY <2>0, <3>1, ConnectTypes DEF Orphan
  <2>4. CASE connState \notin {"MQTT_DATA", "TCP_RECONNECT"}
    BY <1>20, <2>0, <2>4 DEF MQTT_Task, Sending, sdk, conn, history
  <2> QED
    BY <1>20, <2>1, <2>2, <2>3, <2>4 DEF MQTT_Task, Sending
<1>21. CASE every_minute_task
  <2>1. <<"PUBLISH", "PUBLISH">> \in Seq(Outgoing)
    BY DEF Outgoing
  <2>2. queue' \in Seq(Outgoing) /\ Len(queue') <= QueueCap
    BY <1>21, <2>1, PublishingFits DEF every_minute_task
  <2> QED
    BY <1>21, <2>2 DEF every_minute_task, Post, sdk, conn, history
<1>22. CASE UNCHANGED vars
  BY <1>22 DEF vars, client, sdk, conn, history
<1>23. QED
  BY <1>1, <1>2, <1>3, <1>4, <1>5, <1>6, <1>7, <1>8, <1>9, <1>10, <1>11,
    <1>12, <1>13, <1>14, <1>15, <1>16, <1>17, <1>18, <1>19, <1>20, <1>21,
    <1>22 DEF Next, Event, OrphanCallback, mqtt_timer

\* The timer is armed and disarmed together with the espconn.
LEMMA TimerStep == IInv /\ [Next]_vars => TimerHasConnection'
<1> SUFFICES ASSUME IInv, [Next]_vars PROVE TimerHasConnection'
  OBVIOUS
<1> USE DEF TimerHasConnection
<1>0. TypeOK /\ TimerHasConnection
  BY DEF IInv
<1>1. CASE WifiGotIp
  BY <1>0, <1>1 DEF TypeOK, WifiGotIp, MQTT_Connect, ArmTimer, Dial,
    Abandoned, MaxDns
<1>2. CASE WifiLost
  BY <1>0, <1>2 DEF TypeOK, WifiLost, MQTT_Disconnect, Abandoned, Closed,
    history
<1>3. CASE DnsFailed
  BY <1>0, <1>3 DEF TypeOK, DnsFailed, Retry, conn, history
<1>4. CASE DnsFound
  BY <1>0, <1>4 DEF TypeOK, DnsFound, Post, MaxDns
<1>5. CASE DnsFoundTooLate
  BY <1>0, <1>5 DEF TypeOK, DnsFoundTooLate
<1>6. CASE TcpConnected
  BY <1>0, <1>6 DEF TypeOK, TcpConnected, Greet, Post, MaxInflight
<1>7. CASE TcpLost
  BY <1>0, <1>7 DEF TypeOK, TcpLost, Reconnect, Retry, Post, Closed, history
<1>8. CASE SentCb
  BY <1>0, <1>8 DEF TypeOK, SentCb, TaskIsFree, Post, MaxInflight
<1>9. CASE RecvConnack
  BY <1>0, <1>9 DEF TypeOK, RecvConnack, Connack, Post
<1>10. ASSUME NEW m \in BrokerSends, Recv(m) PROVE TimerHasConnection'
  BY <1>0, <1>10 DEF TypeOK, Recv, Packet, Post, sdk, conn, history
<1>11. ASSUME NEW o \in orphans, OrphanConnected(o) PROVE TimerHasConnection'
  BY <1>0, <1>11 DEF TypeOK, OrphanConnected, Becomes, Greet, Sent, Post,
    MaxInflight
<1>12. ASSUME NEW o \in orphans, OrphanLost(o) PROVE TimerHasConnection'
  BY <1>0, <1>12 DEF TypeOK, OrphanLost, Reconnect, Retry, Post, conn, history
<1>13. ASSUME NEW o \in orphans, OrphanSent(o) PROVE TimerHasConnection'
  BY <1>0, <1>13 DEF TypeOK, OrphanSent, Becomes, TaskIsFree, Post
<1>14. ASSUME NEW o \in orphans, OrphanConnack(o) PROVE TimerHasConnection'
  BY <1>0, <1>14 DEF TypeOK, OrphanConnack, Becomes, Connack, Post
<1>15. ASSUME NEW o \in orphans, NEW m \in BrokerSends, OrphanRecv(o, m) PROVE TimerHasConnection'
  BY <1>0, <1>15 DEF TypeOK, OrphanRecv, Packet, Post, sdk, conn, history
<1>16. ASSUME NEW o \in orphans, OrphanForgotten(o) PROVE TimerHasConnection'
  BY <1>0, <1>16 DEF TypeOK, OrphanForgotten, client, conn, history
<1>17. CASE TimerTick
  BY <1>0, <1>17 DEF TypeOK, TimerTick, CountDown, sdk, conn, history
<1>18. CASE TimerPing
  BY <1>0, <1>18 DEF TypeOK, TimerPing, CountDown, Sent, Post, MaxInflight,
    history
<1>19. CASE TimerReconnect
  BY <1>0, <1>19 DEF TypeOK, TimerReconnect, CountDown, Post, sdk, conn,
    history
<1>20. CASE MQTT_Task
  BY <1>0, <1>20 DEF TypeOK, MQTT_Task, SendQueued, Sending, Sent,
    MQTT_Connect, ArmTimer, Dial, Abandoned, sdk, conn, history
<1>21. CASE every_minute_task
  BY <1>0, <1>21 DEF TypeOK, every_minute_task, Post, sdk, conn, history
<1>22. CASE UNCHANGED vars
  BY <1>0, <1>22 DEF TypeOK, vars, client, sdk, conn, history
<1>23. QED
  BY <1>1, <1>2, <1>3, <1>4, <1>5, <1>6, <1>7, <1>8, <1>9, <1>10, <1>11,
    <1>12, <1>13, <1>14, <1>15, <1>16, <1>17, <1>18, <1>19, <1>20, <1>21,
    <1>22 DEF Next, Event, OrphanCallback, mqtt_timer

\* connState is MQTT_DATA only in a session, whatever the SDK calls.
LEMMA LinkStep == IInv /\ [Next]_vars => LinkInv'
<1> SUFFICES ASSUME IInv, [Next]_vars PROVE LinkInv'
  OBVIOUS
<1> USE DEF LinkInv, NullHasNoConnection, OnlyOpenCarries, DataMeansSession
<1>0. TypeOK /\ LinkInv
  BY DEF IInv
<1>1. CASE WifiGotIp
  BY <1>0, <1>1 DEF TypeOK, WifiGotIp, MQTT_Connect, ArmTimer, Dial,
    Abandoned, MaxDns
<1>2. CASE WifiLost
  BY <1>0, <1>2 DEF TypeOK, WifiLost, MQTT_Disconnect, Abandoned, Closed,
    history
<1>3. CASE DnsFailed
  BY <1>0, <1>3 DEF TypeOK, DnsFailed, Retry, conn, history
<1>4. CASE DnsFound
  BY <1>0, <1>4 DEF TypeOK, DnsFound, Post, MaxDns
<1>5. CASE DnsFoundTooLate
  BY <1>0, <1>5 DEF TypeOK, DnsFoundTooLate
<1>6. CASE TcpConnected
  BY <1>0, <1>6 DEF TypeOK, TcpConnected, Greet, Post, MaxInflight
<1>7. CASE TcpLost
  BY <1>0, <1>7 DEF TypeOK, TcpLost, Reconnect, Retry, Post, Closed, history
<1>8. CASE SentCb
  BY <1>0, <1>8 DEF TypeOK, SentCb, TaskIsFree, Post, MaxInflight
<1>9. CASE RecvConnack
  BY <1>0, <1>9 DEF TypeOK, RecvConnack, Connack, Post
<1>10. ASSUME NEW m \in BrokerSends, Recv(m) PROVE LinkInv'
  BY <1>0, <1>10 DEF TypeOK, Recv, Packet, Post, sdk, conn, history
<1>11. ASSUME NEW o \in orphans, OrphanConnected(o) PROVE LinkInv'
  BY <1>0, <1>11 DEF TypeOK, OrphanConnected, Becomes, Greet, Sent, Post,
    MaxInflight
<1>12. ASSUME NEW o \in orphans, OrphanLost(o) PROVE LinkInv'
  BY <1>0, <1>12 DEF TypeOK, OrphanLost, Reconnect, Retry, Post, conn, history
<1>13. ASSUME NEW o \in orphans, OrphanSent(o) PROVE LinkInv'
  BY <1>0, <1>13 DEF TypeOK, OrphanSent, Becomes, TaskIsFree, Post
<1>14. ASSUME NEW o \in orphans, OrphanConnack(o) PROVE LinkInv'
  BY <1>0, <1>14 DEF TypeOK, OrphanConnack, Becomes, Connack, Post
<1>15. ASSUME NEW o \in orphans, NEW m \in BrokerSends, OrphanRecv(o, m) PROVE LinkInv'
  BY <1>0, <1>15 DEF TypeOK, OrphanRecv, Packet, Post, sdk, conn, history
<1>16. ASSUME NEW o \in orphans, OrphanForgotten(o) PROVE LinkInv'
  BY <1>0, <1>16 DEF TypeOK, OrphanForgotten, client, conn, history
<1>17. CASE TimerTick
  BY <1>0, <1>17 DEF TypeOK, TimerTick, CountDown, sdk, conn, history
<1>18. CASE TimerPing
  BY <1>0, <1>18 DEF TypeOK, TimerPing, CountDown, Sent, Post, MaxInflight,
    history
<1>19. CASE TimerReconnect
  BY <1>0, <1>19 DEF TypeOK, TimerReconnect, CountDown, Post, sdk, conn,
    history
<1>20. CASE MQTT_Task
  BY <1>0, <1>20 DEF TypeOK, MQTT_Task, SendQueued, Sending, Sent,
    MQTT_Connect, ArmTimer, Dial, Abandoned, sdk, conn, history
<1>21. CASE every_minute_task
  BY <1>0, <1>21 DEF TypeOK, every_minute_task, Post, sdk, conn, history
<1>22. CASE UNCHANGED vars
  BY <1>0, <1>22 DEF TypeOK, vars, client, sdk, conn, history
<1>23. QED
  BY <1>1, <1>2, <1>3, <1>4, <1>5, <1>6, <1>7, <1>8, <1>9, <1>10, <1>11,
    <1>12, <1>13, <1>14, <1>15, <1>16, <1>17, <1>18, <1>19, <1>20, <1>21,
    <1>22 DEF Next, Event, OrphanCallback, mqtt_timer

\* Only CONNECT is sent before the CONNACK.
LEMMA ConnackStep == IInv /\ [Next]_vars => ConnackIsExpected'
<1> SUFFICES ASSUME IInv, [Next]_vars PROVE ConnackIsExpected'
  OBVIOUS
<1> USE DEF ConnackIsExpected
<1>0. TypeOK /\ ConnackIsExpected
  BY DEF IInv
<1>1. CASE WifiGotIp
  BY <1>0, <1>1 DEF TypeOK, WifiGotIp, MQTT_Connect, ArmTimer, Dial,
    Abandoned, MaxDns
<1>2. CASE WifiLost
  BY <1>0, <1>2 DEF TypeOK, WifiLost, MQTT_Disconnect, Abandoned, Closed,
    history
<1>3. CASE DnsFailed
  BY <1>0, <1>3 DEF TypeOK, DnsFailed, Retry, conn, history
<1>4. CASE DnsFound
  BY <1>0, <1>4 DEF TypeOK, DnsFound, Post, MaxDns
<1>5. CASE DnsFoundTooLate
  BY <1>0, <1>5 DEF TypeOK, DnsFoundTooLate
<1>6. CASE TcpConnected
  BY <1>0, <1>6 DEF TypeOK, TcpConnected, Greet, Post, MaxInflight
<1>7. CASE TcpLost
  BY <1>0, <1>7 DEF TypeOK, TcpLost, Reconnect, Retry, Post, Closed, history
<1>8. CASE SentCb
  BY <1>0, <1>8 DEF TypeOK, SentCb, TaskIsFree, Post, MaxInflight
<1>9. CASE RecvConnack
  BY <1>0, <1>9 DEF TypeOK, RecvConnack, Connack, Post
<1>10. ASSUME NEW m \in BrokerSends, Recv(m) PROVE ConnackIsExpected'
  BY <1>0, <1>10 DEF TypeOK, Recv, Packet, Post, sdk, conn, history
<1>11. ASSUME NEW o \in orphans, OrphanConnected(o) PROVE ConnackIsExpected'
  BY <1>0, <1>11 DEF TypeOK, OrphanConnected, Becomes, Greet, Sent, Post,
    MaxInflight
<1>12. ASSUME NEW o \in orphans, OrphanLost(o) PROVE ConnackIsExpected'
  BY <1>0, <1>12 DEF TypeOK, OrphanLost, Reconnect, Retry, Post, conn, history
<1>13. ASSUME NEW o \in orphans, OrphanSent(o) PROVE ConnackIsExpected'
  BY <1>0, <1>13 DEF TypeOK, OrphanSent, Becomes, TaskIsFree, Post
<1>14. ASSUME NEW o \in orphans, OrphanConnack(o) PROVE ConnackIsExpected'
  BY <1>0, <1>14 DEF TypeOK, OrphanConnack, Becomes, Connack, Post
<1>15. ASSUME NEW o \in orphans, NEW m \in BrokerSends, OrphanRecv(o, m) PROVE ConnackIsExpected'
  BY <1>0, <1>15 DEF TypeOK, OrphanRecv, Packet, Post, sdk, conn, history
<1>16. ASSUME NEW o \in orphans, OrphanForgotten(o) PROVE ConnackIsExpected'
  BY <1>0, <1>16 DEF TypeOK, OrphanForgotten, client, conn, history
<1>17. CASE TimerTick
  BY <1>0, <1>17 DEF TypeOK, TimerTick, CountDown, sdk, conn, history
<1>18. CASE TimerPing
  BY <1>0, <1>18 DEF TypeOK, TimerPing, CountDown, Sent, Post, MaxInflight,
    history
<1>19. CASE TimerReconnect
  BY <1>0, <1>19 DEF TypeOK, TimerReconnect, CountDown, Post, sdk, conn,
    history
<1>20. CASE MQTT_Task
  BY <1>0, <1>20 DEF TypeOK, MQTT_Task, SendQueued, Sending, Sent,
    MQTT_Connect, ArmTimer, Dial, Abandoned, sdk, conn, history
<1>21. CASE every_minute_task
  BY <1>0, <1>21 DEF TypeOK, every_minute_task, Post, sdk, conn, history
<1>22. CASE UNCHANGED vars
  BY <1>0, <1>22 DEF TypeOK, vars, client, sdk, conn, history
<1>23. QED
  BY <1>1, <1>2, <1>3, <1>4, <1>5, <1>6, <1>7, <1>8, <1>9, <1>10, <1>11,
    <1>12, <1>13, <1>14, <1>15, <1>16, <1>17, <1>18, <1>19, <1>20, <1>21,
    <1>22 DEF Next, Event, OrphanCallback, mqtt_timer

\* The task empties its slot only when no reconnection waits.
LEMMA PostStep == IInv /\ [Next]_vars => ReconnectIsPosted'
<1> SUFFICES ASSUME IInv, [Next]_vars PROVE ReconnectIsPosted'
  OBVIOUS
<1> USE DEF ReconnectIsPosted
<1>0. TypeOK /\ ReconnectIsPosted
  BY DEF IInv
<1>1. CASE WifiGotIp
  BY <1>0, <1>1 DEF TypeOK, WifiGotIp, MQTT_Connect, ArmTimer, Dial,
    Abandoned, MaxDns
<1>2. CASE WifiLost
  BY <1>0, <1>2 DEF TypeOK, WifiLost, MQTT_Disconnect, Abandoned, Closed,
    history
<1>3. CASE DnsFailed
  BY <1>0, <1>3 DEF TypeOK, DnsFailed, Retry, conn, history
<1>4. CASE DnsFound
  BY <1>0, <1>4 DEF TypeOK, DnsFound, Post, MaxDns
<1>5. CASE DnsFoundTooLate
  BY <1>0, <1>5 DEF TypeOK, DnsFoundTooLate
<1>6. CASE TcpConnected
  BY <1>0, <1>6 DEF TypeOK, TcpConnected, Greet, Post, MaxInflight
<1>7. CASE TcpLost
  BY <1>0, <1>7 DEF TypeOK, TcpLost, Reconnect, Retry, Post, Closed, history
<1>8. CASE SentCb
  BY <1>0, <1>8 DEF TypeOK, SentCb, TaskIsFree, Post, MaxInflight
<1>9. CASE RecvConnack
  BY <1>0, <1>9 DEF TypeOK, RecvConnack, Connack, Post
<1>10. ASSUME NEW m \in BrokerSends, Recv(m) PROVE ReconnectIsPosted'
  BY <1>0, <1>10 DEF TypeOK, Recv, Packet, Post, sdk, conn, history
<1>11. ASSUME NEW o \in orphans, OrphanConnected(o) PROVE ReconnectIsPosted'
  BY <1>0, <1>11 DEF TypeOK, OrphanConnected, Becomes, Greet, Sent, Post,
    MaxInflight
<1>12. ASSUME NEW o \in orphans, OrphanLost(o) PROVE ReconnectIsPosted'
  BY <1>0, <1>12 DEF TypeOK, OrphanLost, Reconnect, Retry, Post, conn, history
<1>13. ASSUME NEW o \in orphans, OrphanSent(o) PROVE ReconnectIsPosted'
  BY <1>0, <1>13 DEF TypeOK, OrphanSent, Becomes, TaskIsFree, Post
<1>14. ASSUME NEW o \in orphans, OrphanConnack(o) PROVE ReconnectIsPosted'
  BY <1>0, <1>14 DEF TypeOK, OrphanConnack, Becomes, Connack, Post
<1>15. ASSUME NEW o \in orphans, NEW m \in BrokerSends, OrphanRecv(o, m) PROVE ReconnectIsPosted'
  BY <1>0, <1>15 DEF TypeOK, OrphanRecv, Packet, Post, sdk, conn, history
<1>16. ASSUME NEW o \in orphans, OrphanForgotten(o) PROVE ReconnectIsPosted'
  BY <1>0, <1>16 DEF TypeOK, OrphanForgotten, client, conn, history
<1>17. CASE TimerTick
  BY <1>0, <1>17 DEF TypeOK, TimerTick, CountDown, sdk, conn, history
<1>18. CASE TimerPing
  BY <1>0, <1>18 DEF TypeOK, TimerPing, CountDown, Sent, Post, MaxInflight,
    history
<1>19. CASE TimerReconnect
  BY <1>0, <1>19 DEF TypeOK, TimerReconnect, CountDown, Post, sdk, conn,
    history
<1>20. CASE MQTT_Task
  BY <1>0, <1>20 DEF TypeOK, MQTT_Task, SendQueued, Sending, Sent,
    MQTT_Connect, ArmTimer, Dial, Abandoned, sdk, conn, history
<1>21. CASE every_minute_task
  BY <1>0, <1>21 DEF TypeOK, every_minute_task, Post, sdk, conn, history
<1>22. CASE UNCHANGED vars
  BY <1>0, <1>22 DEF TypeOK, vars, client, sdk, conn, history
<1>23. QED
  BY <1>1, <1>2, <1>3, <1>4, <1>5, <1>6, <1>7, <1>8, <1>9, <1>10, <1>11,
    <1>12, <1>13, <1>14, <1>15, <1>16, <1>17, <1>18, <1>19, <1>20, <1>21,
    <1>22 DEF Next, Event, OrphanCallback, mqtt_timer

\* A message goes through NULL only after a callback let the task go on.
LEMMA LossStep == IInv /\ [Next]_vars => LossInv'
<1> SUFFICES ASSUME IInv, [Next]_vars PROVE LossInv'
  OBVIOUS
<1> USE DEF LossInv, OutageLosesOne, LossHoldsTask, TimerHasConnection,
    LinkInv, NullHasNoConnection, OnlyOpenCarries
<1>0. TypeOK /\ TimerHasConnection /\ LinkInv /\ LossInv
  BY DEF IInv
<1>1. CASE WifiGotIp
  BY <1>0, <1>1 DEF TypeOK, WifiGotIp, MQTT_Connect, ArmTimer, Dial,
    Abandoned, MaxDns
<1>2. CASE WifiLost
  BY <1>0, <1>2 DEF TypeOK, WifiLost, MQTT_Disconnect, Abandoned, Closed,
    history
<1>3. CASE DnsFailed
  BY <1>0, <1>3 DEF TypeOK, DnsFailed, Retry, conn, history
<1>4. CASE DnsFound
  BY <1>0, <1>4 DEF TypeOK, DnsFound, Post, MaxDns
<1>5. CASE DnsFoundTooLate
  BY <1>0, <1>5 DEF TypeOK, DnsFoundTooLate
<1>6. CASE TcpConnected
  BY <1>0, <1>6 DEF TypeOK, TcpConnected, Greet, Post, MaxInflight
<1>7. CASE TcpLost
  BY <1>0, <1>7 DEF TypeOK, TcpLost, Reconnect, Retry, Post, Closed, history
<1>8. CASE SentCb
  BY <1>0, <1>8 DEF TypeOK, SentCb, TaskIsFree, Post, MaxInflight
<1>9. CASE RecvConnack
  BY <1>0, <1>9 DEF TypeOK, RecvConnack, Connack, Post
<1>10. ASSUME NEW m \in BrokerSends, Recv(m) PROVE LossInv'
  BY <1>0, <1>10 DEF TypeOK, Recv, Packet, Post, sdk, conn, history
<1>11. ASSUME NEW o \in orphans, OrphanConnected(o) PROVE LossInv'
  BY <1>0, <1>11 DEF TypeOK, OrphanConnected, Becomes, Greet, Sent, Post,
    MaxInflight
<1>12. ASSUME NEW o \in orphans, OrphanLost(o) PROVE LossInv'
  BY <1>0, <1>12 DEF TypeOK, OrphanLost, Reconnect, Retry, Post, conn, history
<1>13. ASSUME NEW o \in orphans, OrphanSent(o) PROVE LossInv'
  BY <1>0, <1>13 DEF TypeOK, OrphanSent, Becomes, TaskIsFree, Post
<1>14. ASSUME NEW o \in orphans, OrphanConnack(o) PROVE LossInv'
  BY <1>0, <1>14 DEF TypeOK, OrphanConnack, Becomes, Connack, Post
<1>15. ASSUME NEW o \in orphans, NEW m \in BrokerSends, OrphanRecv(o, m) PROVE LossInv'
  BY <1>0, <1>15 DEF TypeOK, OrphanRecv, Packet, Post, sdk, conn, history
<1>16. ASSUME NEW o \in orphans, OrphanForgotten(o) PROVE LossInv'
  BY <1>0, <1>16 DEF TypeOK, OrphanForgotten, client, conn, history
<1>17. CASE TimerTick
  BY <1>0, <1>17 DEF TypeOK, TimerTick, CountDown, sdk, conn, history
<1>18. CASE TimerPing
  BY <1>0, <1>18 DEF TypeOK, TimerPing, CountDown, Sent, Post, MaxInflight,
    history
<1>19. CASE TimerReconnect
  BY <1>0, <1>19 DEF TypeOK, TimerReconnect, CountDown, Post, sdk, conn,
    history
<1>20. CASE MQTT_Task
  BY <1>0, <1>20 DEF TypeOK, MQTT_Task, SendQueued, Sending, Sent,
    MQTT_Connect, ArmTimer, Dial, Abandoned, sdk, conn, history
<1>21. CASE every_minute_task
  BY <1>0, <1>21 DEF TypeOK, every_minute_task, Post, sdk, conn, history
<1>22. CASE UNCHANGED vars
  BY <1>0, <1>22 DEF TypeOK, vars, client, sdk, conn, history
<1>23. QED
  BY <1>1, <1>2, <1>3, <1>4, <1>5, <1>6, <1>7, <1>8, <1>9, <1>10, <1>11,
    <1>12, <1>13, <1>14, <1>15, <1>16, <1>17, <1>18, <1>19, <1>20, <1>21,
    <1>22 DEF Next, Event, OrphanCallback, mqtt_timer

\* The invariant holds throughout.
LEMMA Invariance == Spec => []IInv
<1>1. IInv /\ [Next]_vars => IInv'
  <2>1. IInv => TypeOK
    BY DEF IInv
  <2>2. QED
    BY <2>1, TypeStep, TimerStep, LinkStep, ConnackStep, PostStep, LossStep
    DEF IInv
<1>2. QED
  BY InitHolds, <1>1, PTL DEF Spec

\* Every variable of the client keeps its type.
THEOREM TypeCorrect == Spec => []TypeOK
<1>1. IInv => TypeOK
  BY DEF IInv
<1>2. QED
  BY Invariance, <1>1, PTL

\* mqtt_timer, which sends through client->pCon, runs only while it is not NULL.
THEOREM TimerNeverMeetsNull == Spec => []TimerHasConnection
<1>1. IInv => TimerHasConnection
  BY DEF IInv
<1>2. QED
  BY Invariance, <1>1, PTL

\* MQTT_DATA with an espconn means an open, acknowledged connection, whatever
\* late DNS answers and all callbacks of abandoned connections do, but for the
\* one that is a CONNACK.
THEOREM SessionsAreReal == Spec => []DataMeansSession
<1>1. IInv => DataMeansSession
  BY DEF IInv, LinkInv
<1>2. QED
  BY Invariance, <1>1, PTL

\* No CONNACK of the client's CONNECT is dropped as an invalid packet.
THEOREM ConnackIsTaken == Spec => []ConnackIsExpected
<1>1. IInv => ConnackIsExpected
  BY DEF IInv
<1>2. QED
  BY Invariance, <1>1, PTL

\* The one-slot task queue never loses the request to reconnect.
THEOREM ReconnectReachesTask == Spec => []ReconnectIsPosted
<1>1. IInv => ReconnectIsPosted
  BY DEF IInv
<1>2. QED
  BY Invariance, <1>1, PTL

\* An outage costs one queued message, and one more for each sent callback of an
\* abandoned connection.
THEOREM OneMessagePerOutage == Spec => []OutageLosesOne
<1>1. IInv => OutageLosesOne
  BY DEF IInv, LossInv
<1>2. QED
  BY Invariance, <1>1, PTL

\* An attempt for which neither a lookup nor a connection is under way waits for
\* ever: the timer and the task leave it alone.
THEOREM HangLasts == Spec => HangIsForever
<1>1. [Next]_vars => [Hung => Hung' \/ WifiGotIp \/ WifiLost]_vars
  <2> SUFFICES ASSUME [Next]_vars, Hung, ~WifiGotIp, ~WifiLost
               PROVE  Hung'
    BY DEF Hung
  <2> USE DEF Hung
  <2>1. CASE DnsFailed
    BY <2>1 DEF DnsFailed, Retry, conn, history
  <2>2. CASE DnsFound
    BY <2>2 DEF DnsFound, Post, MaxDns
  <2>3. CASE DnsFoundTooLate
    BY <2>3 DEF DnsFoundTooLate
  <2>4. CASE TcpConnected
    BY <2>4 DEF TcpConnected, Greet, Post, MaxInflight
  <2>5. CASE TcpLost
    BY <2>5 DEF TcpLost, Reconnect, Retry, Post, Closed, history
  <2>6. CASE SentCb
    BY <2>6 DEF SentCb, TaskIsFree, Post, MaxInflight
  <2>7. CASE RecvConnack
    BY <2>7 DEF RecvConnack, Connack, Post
  <2>8. ASSUME NEW m \in BrokerSends, Recv(m) PROVE Hung'
    BY <2>8 DEF Recv, Packet, Post, sdk, conn, history
  <2>9. CASE TimerTick
    BY <2>9 DEF TimerTick, CountDown, sdk, conn, history
  <2>10. CASE TimerPing
    BY <2>10 DEF TimerPing, CountDown, Sent, Post, MaxInflight, history
  <2>11. CASE TimerReconnect
    BY <2>11 DEF TimerReconnect, CountDown, Post, sdk, conn, history
  <2>12. CASE MQTT_Task
    BY <2>12 DEF MQTT_Task, SendQueued, Sending, Sent, MQTT_Connect, ArmTimer,
      Dial, Abandoned, sdk, conn, history
  <2>13. CASE every_minute_task
    BY <2>13 DEF every_minute_task, Post, sdk, conn, history
  <2>14. CASE UNCHANGED vars
    BY <2>14 DEF vars, client, sdk, conn, history
  <2> QED
    BY <2>1, <2>2, <2>3, <2>4, <2>5, <2>6, <2>7, <2>8, <2>9, <2>10, <2>11,
      <2>12, <2>13, <2>14 DEF Next, Event, mqtt_timer
<1>2. QED
  BY <1>1, PTL DEF Spec, HangIsForever
=============================================================================
