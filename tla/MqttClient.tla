----------------------------- MODULE MqttClient -----------------------------
(***************************************************************************)
(* mqtt/mqtt.c with the callbacks user/user_main.c hangs on it: the life   *)
(* of the broker connection under DNS answers, TCP events, the one-second  *)
(* timer, the posted task and the Wi-Fi callback, in every order.  Each    *)
(* action is one callback run to its end.                                  *)
(*                                                                         *)
(* The outgoing queue is MsgQueue's (FrameQueue implements it); a message  *)
(* is its MQTT type.  Packet ids only choose what is logged, and are left  *)
(* out.  The Espressif SDK (espconn, DNS, the event queue) is not in the   *)
(* repository: its part is modelled from how mqtt.c uses it.               *)
(*                                                                         *)
(* MQTT_Disconnect frees an espconn without closing its TCP connection.    *)
(* Such an orphan goes on: every callback of mqtt.c may come from it, and  *)
(* reaches the one client through the reverse pointer of the block that    *)
(* was its espconn, be it free memory or the next espconn.                 *)
(***************************************************************************)
EXTENDS Integers, Sequences, FiniteSets

CONSTANTS KeepAlive,         \* connect_info.keepalive, in timer ticks
          SendTimeout,       \* MQTT_SEND_TIMOUT
          ReconnectTimeout,  \* MQTT_RECONNECT_TIMEOUT
          QueueCap,          \* messages the queue holds (bound)
          MaxOrphans,        \* orphans that live at a time (bound)
          BrokerSends        \* what the broker may send to a session

ASSUME TimeoutAssumption ==
  /\ KeepAlive \in Nat
  /\ SendTimeout \in Nat \ {0}
  /\ ReconnectTimeout \in Nat
  /\ QueueCap \in Nat \ {0}

\* What deliver_publish and the QoS handshakes distinguish.
Incoming == {"PUBLISH0", "PUBLISH1", "PUBLISH2", "PUBREC", "PUBREL",
             "PINGREQ", "other"}

ASSUME BrokerAssumption == BrokerSends \subseteq Incoming

ConnState == {"WIFI_INIT", "TCP_RECONNECT_REQ", "TCP_RECONNECT",
              "TCP_CONNECTING", "MQTT_CONNECT_SENDING", "MQTT_DATA"}

Outgoing == {"SUBSCRIBE", "PUBLISH", "PUBACK", "PUBREC", "PUBREL", "PUBCOMP",
             "PINGRESP"}

VARIABLES
  hostIsName,     \* mqtt_host is a name, not an address: never changes
  connState,      \* client->connState
  pCon,           \* client->pCon is not NULL
  timer,          \* mqttTimer is armed
  keepAliveTick,
  reconnectTick,
  sendTimeout,
  pending,        \* mqtt_state.pending_msg_type
  queue,          \* whole messages in msgQueue, oldest first
  posted,         \* the one slot of mqtt_procTaskQueue is taken
  linked,         \* wifi_check_ip last reported STATION_GOT_IP
  ip,             \* client->ip is not 0
  (* the SDK's side *)
  tcp,            \* client->pCon's connection: "none", "dialing" or "open"
  inflight,       \* sends on it whose sent callback is due
  greeted,        \* the CONNECT on it: "no", "sent" or "acked"
  dns,            \* lookups whose callback is due
  orphans,        \* connections whose espconn MQTT_Disconnect freed
  (* history *)
  stray,          \* an orphan's CONNACK was the last to make MQTT_DATA
  barren,         \* since MQTT_Connect, the last word of DNS dialled nothing
  lost,           \* messages handed to a NULL espconn since MQTT_Connect
  late            \* sent callbacks of orphans while pCon was NULL, since then

client  == <<connState, pCon, timer, keepAliveTick, reconnectTick, sendTimeout,
             pending, queue, posted, linked, ip>>
conn    == <<tcp, inflight, greeted>>
sdk     == <<conn, dns, orphans>>
history == <<stray, barren, lost, late>>
vars    == <<hostIsName, client, sdk, history>>

\* A TCP connection as the SDK holds it.
Connection(state, sends, connect) ==
  [tcp |-> state, inflight |-> sends, greeted |-> connect]

\* Bounds on what the SDK may have under way.
MaxInflight == 2
MaxDns == 2

\* MQTT_InitConnection, MQTT_InitClient (which posts the first event) and the
\* WIFI_Connect of user_init.
Init ==
  /\ hostIsName \in BOOLEAN
  /\ connState = "WIFI_INIT" /\ pCon = FALSE /\ timer = FALSE
  /\ keepAliveTick = 0 /\ reconnectTick = 0 /\ sendTimeout = 0
  /\ pending = "none" /\ queue = << >> /\ posted = TRUE
  /\ linked = FALSE /\ ip = FALSE
  /\ tcp = "none" /\ inflight = 0 /\ greeted = "no" /\ dns = 0
  /\ orphans = {}
  /\ stray = FALSE /\ barren = FALSE /\ lost = 0 /\ late = 0
-----------------------------------------------------------------------------
(* Helpers.                                                                *)

\* Mutated form: the task is not told.
PostForgotten == UNCHANGED posted

\* system_os_post: with one slot, a post beside a pending one is lost.
Post == posted' = TRUE

\* Mutated form: a failure leaves the state as it was.
NoRetry == UNCHANGED connState

\* What every failure does: the timer takes it from there.
Retry == connState' = "TCP_RECONNECT_REQ"

\* The last lines of mqtt_timer.
CountDown(t) == IF t > 0 THEN t - 1 ELSE t

\* MQTT_Task sends from the queue.
Sending == connState = "MQTT_DATA"

\* MQTT_Publish and MQTT_Subscribe in a row: what does not fit pushes out the
\* oldest messages, or (MsgQueue's RefusePublish) everything up to itself.
AfterPublishing(burst) ==
  LET all == queue \o burst
  IN  IF Len(all) <= QueueCap
      THEN {all}
      ELSE {SubSeq(all, k, Len(all)) :
              k \in Len(all) - QueueCap + 1 .. Len(all) + 1}

\* QUEUE_Puts of a protocol reply, dropped when it does not fit.
AfterReply(m) == IF Len(queue) < QueueCap THEN Append(queue, m) ELSE queue

\* espconn_sent on client->pCon: refused unless it is open, and perhaps refused
\* while an earlier send is under way.
Sent ==
  inflight' \in IF tcp # "open" THEN {inflight}
                ELSE IF inflight = 0 THEN {1}
                ELSE {inflight} \cup (IF inflight < MaxInflight
                                      THEN {inflight + 1} ELSE {})

\* The TCP connection of client->pCon is gone.
Closed == tcp' = "none" /\ inflight' = 0 /\ greeted' = "no"

\* Freeing an espconn does not close its TCP connection: the SDK keeps it, with
\* the sends and the CONNECT that are on their way.
Abandoned ==
  orphans' = IF tcp = "none" \/ Cardinality(orphans) >= MaxOrphans THEN orphans
             ELSE orphans \cup {Connection(tcp, inflight, greeted)}

\* Mutated form: the timer outlives the espconn.
DisconnectKeepsTimer ==
  /\ pCon' = FALSE
  /\ Abandoned
  /\ Closed
  /\ UNCHANGED timer

MQTT_Disconnect ==
  /\ pCon' = FALSE
  /\ timer' = FALSE
  /\ Abandoned
  /\ Closed

\* Mutated form: MQTT_Connect leaves the timer as MQTT_Disconnect did.
NotArmed == timer' = FALSE

\* os_timer_arm(&mqttTimer, 1000, 1)
ArmTimer == timer' = TRUE

\* espconn_connect to an address; or espconn_gethostbyname, which fills
\* client->ip and never calls back when the SDK has the name in its cache.
Dial ==
  IF hostIsName
  THEN /\ tcp' = "none"
       /\ \/ /\ dns' = IF dns < MaxDns THEN dns + 1 ELSE dns
             /\ UNCHANGED ip /\ barren' = FALSE
          \/ UNCHANGED dns /\ ip' = TRUE /\ barren' = TRUE
  ELSE tcp' = "dialing" /\ UNCHANGED <<dns, ip>> /\ barren' = FALSE

\* MQTT_Disconnect, a new espconn, and the timer.
MQTT_Connect ==
  /\ Abandoned
  /\ pCon' = TRUE
  /\ ArmTimer
  /\ keepAliveTick' = 0 /\ reconnectTick' = 0
  /\ Dial
  /\ connState' = "TCP_CONNECTING"
  /\ inflight' = 0 /\ greeted' = "no"
  /\ stray' = FALSE /\ lost' = 0 /\ late' = 0
-----------------------------------------------------------------------------
(* The Wi-Fi callback (user_main.c).                                       *)

\* wifiConnectCb(STATION_GOT_IP)
WifiGotIp ==
  /\ ~linked
  /\ linked' = TRUE
  /\ MQTT_Connect
  /\ UNCHANGED <<sendTimeout, pending, queue, posted>>

\* wifiConnectCb with any other status (it may change while there is no link)
WifiLost ==
  /\ linked' = FALSE
  /\ MQTT_Disconnect
  /\ UNCHANGED <<connState, keepAliveTick, reconnectTick, sendTimeout, pending,
                 queue, posted, ip, dns, history>>
-----------------------------------------------------------------------------
(* What mqtt.c's callbacks do to the client, whichever connection calls.   *)

\* mqtt_tcpclient_connect_cb: CONNECT goes to client->pCon.
Greet ==
  /\ pending' = "CONNECT"
  /\ sendTimeout' = SendTimeout
  /\ connState' = "MQTT_CONNECT_SENDING"
  /\ Post
  /\ stray' = FALSE
  /\ UNCHANGED <<pCon, timer, keepAliveTick, reconnectTick, queue, linked, ip,
                 dns, barren, lost, late>>

\* mqtt_tcpclient_recon_cb and mqtt_tcpclient_discon_cb
Reconnect ==
  /\ Retry
  /\ Post
  /\ UNCHANGED <<pCon, timer, keepAliveTick, reconnectTick, sendTimeout,
                 pending, queue, linked, ip, dns, history>>

\* mqtt_tcpclient_sent_cb
TaskIsFree ==
  /\ sendTimeout' = 0
  /\ Post
  /\ UNCHANGED <<connState, pCon, timer, keepAliveTick, reconnectTick, pending,
                 queue, linked, ip, tcp, greeted, dns, stray, barren, lost>>

\* mqttConnectedCb: two subscriptions, then five first values.
Announcement == <<"SUBSCRIBE", "SUBSCRIBE", "PUBLISH", "PUBLISH", "PUBLISH",
                  "PUBLISH", "PUBLISH">>

\* mqtt_tcpclient_recv of a CONNACK (its return code is not looked at).
Connack ==
  /\ IF connState = "MQTT_CONNECT_SENDING" /\ pending = "CONNECT"
     THEN /\ connState' = "MQTT_DATA"
          /\ queue' \in AfterPublishing(Announcement)
     ELSE UNCHANGED <<connState, queue>>   \* at most espconn_disconnect
  /\ Post
  /\ UNCHANGED <<pCon, timer, keepAliveTick, reconnectTick, sendTimeout,
                 pending, linked, ip, tcp, inflight, dns, barren, lost, late>>

\* The reply each packet of a session calls for.
ReplyTo == [PUBLISH1 |-> "PUBACK", PUBLISH2 |-> "PUBREC", PUBREC |-> "PUBREL",
            PUBREL |-> "PUBCOMP", PINGREQ |-> "PINGRESP"]

\* mqtt_tcpclient_recv of a packet of an established session.
Packet(m) ==
  /\ queue' = IF connState = "MQTT_DATA" /\ m \in DOMAIN ReplyTo
              THEN AfterReply(ReplyTo[m]) ELSE queue
  /\ Post
  /\ UNCHANGED <<connState, pCon, timer, keepAliveTick, reconnectTick,
                 sendTimeout, pending, linked, ip, sdk, history>>
-----------------------------------------------------------------------------
(* Callbacks of DNS and of client->pCon.                                   *)

\* mqtt_dns_found with no address: note that nothing is posted.
DnsFailed ==
  /\ dns > 0
  /\ dns' = dns - 1
  /\ Retry
  /\ UNCHANGED <<pCon, timer, keepAliveTick, reconnectTick, sendTimeout,
                 pending, queue, posted, linked, ip, conn, orphans, history>>

\* mqtt_dns_found with an address, for this lookup or an earlier one: it is
\* dialled unless it is 0.0.0.0 or client->ip was filled from the cache.
\* espconn_connect of a connection that is under way changes nothing.
DnsFound ==
  /\ dns > 0
  /\ dns' = dns - 1
  /\ \/ /\ ~ip /\ pCon
        /\ tcp' = IF tcp = "none" THEN "dialing" ELSE tcp
        /\ connState' = "TCP_CONNECTING"
        /\ barren' = FALSE
     \/ /\ barren' = (barren \/ tcp = "none")
        /\ UNCHANGED <<connState, tcp>>
  /\ Post
  /\ UNCHANGED <<pCon, timer, keepAliveTick, reconnectTick, sendTimeout,
                 pending, queue, linked, ip, inflight, greeted, orphans, stray,
                 lost, late>>

\* An address to dial with client->pCon NULL: writing through it resets the chip.
DnsFoundTooLate ==
  /\ dns > 0 /\ ~ip /\ ~pCon
  /\ connState' = "WIFI_INIT" /\ pCon' = FALSE /\ timer' = FALSE
  /\ keepAliveTick' = 0 /\ reconnectTick' = 0 /\ sendTimeout' = 0
  /\ pending' = "none" /\ queue' = << >> /\ posted' = TRUE
  /\ linked' = FALSE /\ ip' = FALSE
  /\ tcp' = "none" /\ inflight' = 0 /\ greeted' = "no" /\ dns' = 0
  /\ orphans' = {}
  /\ stray' = FALSE /\ barren' = FALSE /\ lost' = 0 /\ late' = 0

\* mqtt_tcpclient_connect_cb
TcpConnected ==
  /\ tcp = "dialing"
  /\ tcp' = "open"
  /\ Greet
  /\ inflight' = 1 /\ greeted' = "sent"
  /\ UNCHANGED orphans

\* mqtt_tcpclient_recon_cb or mqtt_tcpclient_discon_cb
TcpLost ==
  /\ tcp # "none"
  /\ Reconnect
  /\ Closed
  /\ UNCHANGED orphans

\* A broker closes a connection on which no session is kept alive.
BrokerGivesUp ==
  /\ connState # "MQTT_DATA"
  /\ tcp = "open"
  /\ TcpLost

\* mqtt_tcpclient_sent_cb
SentCb ==
  /\ inflight > 0
  /\ inflight' = inflight - 1
  /\ TaskIsFree
  /\ UNCHANGED <<orphans, late>>

\* mqtt_tcpclient_recv: the broker's answer to CONNECT
RecvConnack ==
  /\ tcp = "open" /\ greeted = "sent"
  /\ greeted' = "acked"
  /\ Connack
  /\ stray' = FALSE
  /\ UNCHANGED orphans

\* mqtt_tcpclient_recv: anything else
Recv(m) ==
  /\ tcp = "open" /\ greeted = "acked"
  /\ Packet(m)
-----------------------------------------------------------------------------
(* Callbacks of an orphan.                                                 *)

\* The orphan goes on as o.
Becomes(orphan, o) == orphans' = (orphans \ {orphan}) \cup {o}

\* Its CONNECT goes out on client->pCon, if that is open.
OrphanConnected(orphan) ==
  /\ orphan.tcp = "dialing"
  /\ Becomes(orphan, [orphan EXCEPT !.tcp = "open"])
  /\ Greet
  /\ Sent
  /\ greeted' = IF inflight' > inflight THEN "sent" ELSE greeted
  /\ UNCHANGED tcp

OrphanLost(orphan) ==
  /\ orphans' = orphans \ {orphan}
  /\ Reconnect
  /\ UNCHANGED conn

OrphanSent(orphan) ==
  /\ orphan.inflight > 0
  /\ Becomes(orphan, [orphan EXCEPT !.inflight = @ - 1])
  /\ TaskIsFree
  /\ late' = IF pCon THEN late ELSE late + 1
  /\ UNCHANGED inflight

\* The answer to the CONNECT the orphan sent while it was client->pCon's.
OrphanConnack(orphan) ==
  /\ orphan.tcp = "open" /\ orphan.greeted = "sent"
  /\ Becomes(orphan, [orphan EXCEPT !.greeted = "acked"])
  /\ Connack
  /\ stray' = (stray \/ connState = "MQTT_CONNECT_SENDING")
  /\ UNCHANGED greeted

OrphanRecv(orphan, m) ==
  /\ orphan.tcp = "open" /\ orphan.greeted = "acked"
  /\ Packet(m)

\* The block holds nothing (any more) that the SDK can call.
OrphanForgotten(orphan) ==
  /\ orphans' = orphans \ {orphan}
  /\ UNCHANGED <<client, conn, dns, history>>

OrphanCallback(orphan) ==
  \/ OrphanConnected(orphan) \/ OrphanLost(orphan)
  \/ OrphanSent(orphan) \/ OrphanConnack(orphan)
  \/ \E m \in BrokerSends : OrphanRecv(orphan, m)
  \/ OrphanForgotten(orphan)
-----------------------------------------------------------------------------
(* The timer and the task.                                                 *)

\* mqtt_timer with nothing due.
TimerTick ==
  /\ timer
  /\ \/ /\ connState = "MQTT_DATA" /\ keepAliveTick + 1 <= KeepAlive
        /\ keepAliveTick' = keepAliveTick + 1
        /\ UNCHANGED reconnectTick
     \/ /\ connState = "TCP_RECONNECT_REQ"
        /\ reconnectTick + 1 <= ReconnectTimeout
        /\ reconnectTick' = reconnectTick + 1
        /\ UNCHANGED keepAliveTick
     \/ /\ connState \notin {"MQTT_DATA", "TCP_RECONNECT_REQ"}
        /\ UNCHANGED <<keepAliveTick, reconnectTick>>
  /\ sendTimeout' = CountDown(sendTimeout)
  /\ UNCHANGED <<connState, pCon, timer, pending, queue, posted, linked, ip,
                 sdk, history>>

\* mqtt_timer when a PINGREQ is due: sent past the queue.
TimerPing ==
  /\ timer /\ connState = "MQTT_DATA" /\ keepAliveTick + 1 > KeepAlive
  /\ pending' = "PINGREQ"
  /\ sendTimeout' = CountDown(SendTimeout)
  /\ Sent
  /\ keepAliveTick' = 0
  /\ Post
  /\ UNCHANGED <<connState, pCon, timer, reconnectTick, queue, linked, ip, tcp,
                 greeted, dns, orphans, history>>

\* mqtt_timer when the pause before a reconnection is over.
TimerReconnect ==
  /\ timer /\ connState = "TCP_RECONNECT_REQ"
  /\ reconnectTick + 1 > ReconnectTimeout
  /\ reconnectTick' = 0
  /\ connState' = "TCP_RECONNECT"
  /\ sendTimeout' = CountDown(sendTimeout)
  /\ Post
  /\ UNCHANGED <<pCon, timer, keepAliveTick, pending, queue, linked, ip, sdk,
                 history>>

mqtt_timer == TimerTick \/ TimerPing \/ TimerReconnect

\* MQTT_Task hands the oldest message to espconn_sent.
SendQueued ==
  /\ queue # << >> /\ sendTimeout = 0
  /\ queue' = Tail(queue)
  /\ pending' = Head(queue)
  /\ sendTimeout' = SendTimeout
  /\ Sent
  /\ lost' = IF pCon THEN lost ELSE lost + 1
  /\ UNCHANGED <<connState, pCon, timer, keepAliveTick, reconnectTick, linked,
                 ip, tcp, greeted, dns, orphans, stray, barren, late>>

MQTT_Task ==
  /\ posted
  /\ posted' = FALSE
  /\ \/ Sending /\ SendQueued
     \/ /\ Sending /\ (queue = << >> \/ sendTimeout # 0)
        /\ UNCHANGED <<connState, pCon, timer, keepAliveTick, reconnectTick,
                       sendTimeout, pending, queue, linked, ip, sdk, history>>
     \/ /\ connState = "TCP_RECONNECT"
        /\ MQTT_Connect
        /\ UNCHANGED <<sendTimeout, pending, queue, linked>>
     \/ /\ connState \notin {"MQTT_DATA", "TCP_RECONNECT"}
        /\ UNCHANGED <<connState, pCon, timer, keepAliveTick, reconnectTick,
                       sendTimeout, pending, queue, linked, ip, sdk, history>>

\* every_minute_task: temperature and humidity, only in a session.
every_minute_task ==
  /\ connState = "MQTT_DATA"
  /\ queue' \in AfterPublishing(<<"PUBLISH", "PUBLISH">>)
  /\ Post
  /\ UNCHANGED <<connState, pCon, timer, keepAliveTick, reconnectTick,
                 sendTimeout, pending, linked, ip, sdk, history>>

Event ==
  \/ WifiGotIp \/ WifiLost
  \/ DnsFailed \/ DnsFound \/ DnsFoundTooLate
  \/ TcpConnected \/ TcpLost
  \/ SentCb \/ RecvConnack
  \/ \E m \in BrokerSends : Recv(m)
  \/ \E orphan \in orphans : OrphanCallback(orphan)
  \/ mqtt_timer \/ MQTT_Task \/ every_minute_task

\* The host is fixed by MQTT_InitConnection.
SameHost == UNCHANGED hostIsName

Next == Event /\ SameHost

\* The SDK runs armed timers and posted tasks, answers lookups, connection
\* attempts and sends; a broker does not keep a connection without a session.
\* Strong fairness of the task: it runs within milliseconds of its post, the
\* timer once a second, so it is not always late for the moment it could send.
Fairness ==
  /\ WF_vars(mqtt_timer /\ SameHost)
  /\ WF_vars(MQTT_Task /\ SameHost)
  /\ SF_vars(MQTT_Task /\ SendQueued /\ SameHost)
  /\ WF_vars(SentCb /\ SameHost)
  /\ WF_vars((DnsFailed \/ DnsFound) /\ SameHost)
  /\ WF_vars(tcp = "dialing" /\ (TcpConnected \/ TcpLost) /\ SameHost)
  /\ WF_vars(BrokerGivesUp /\ SameHost)

Spec == Init /\ [][Next]_vars /\ Fairness
-----------------------------------------------------------------------------
(* Properties.                                                             *)

TypeOK ==
  /\ hostIsName \in BOOLEAN
  /\ connState \in ConnState
  /\ pCon \in BOOLEAN /\ timer \in BOOLEAN
  /\ keepAliveTick \in 0 .. KeepAlive
  /\ reconnectTick \in 0 .. ReconnectTimeout
  /\ sendTimeout \in 0 .. SendTimeout
  /\ pending \in Outgoing \cup {"none", "CONNECT", "PINGREQ"}
  /\ queue \in Seq(Outgoing) /\ Len(queue) <= QueueCap
  /\ posted \in BOOLEAN /\ linked \in BOOLEAN /\ ip \in BOOLEAN
  /\ tcp \in {"none", "dialing", "open"}
  /\ inflight \in 0 .. MaxInflight
  /\ greeted \in {"no", "sent", "acked"}
  /\ dns \in 0 .. MaxDns
  /\ orphans \subseteq [tcp : {"dialing", "open"}, inflight : 0 .. MaxInflight,
                        greeted : {"no", "sent", "acked"}]
  /\ stray \in BOOLEAN /\ barren \in BOOLEAN
  /\ lost \in Nat /\ late \in Nat

\* mqtt_timer sends through client->pCon without looking at it.  It never
\* meets NULL because the timer runs exactly while there is an espconn.
TimerHasConnection == timer <=> pCon

\* mqtt_tcpclient_recv drops a CONNACK, and the connection, if anything but
\* CONNECT was sent last.  Nothing gets in between: neither the timer's ping,
\* nor a message left in the queue, nor an abandoned connection.
ConnackIsExpected == connState = "MQTT_CONNECT_SENDING" => pending = "CONNECT"

\* The task queue has one slot and system_os_post's failure is ignored, yet
\* the request to reconnect is never lost: whoever fills the slot carries it.
ReconnectIsPosted == connState = "TCP_RECONNECT" => posted

\* MQTT_DATA means a session: the connection is open and its CONNECT has been
\* acknowledged, whatever late DNS answers do, and orphans by connecting, ending,
\* sending or publishing.  So neither a ping nor a queued message precedes a
\* CONNACK.  Only an orphan's own late CONNACK is taken for the one awaited
\* (mqtt.c:139-153 does not ask which connection it came on).
DataMeansSession ==
  connState = "MQTT_DATA" /\ pCon /\ ~stray => tcp = "open" /\ greeted = "acked"

\* While Wi-Fi is down connState stays MQTT_DATA and the task goes on sending,
\* through a NULL espconn.  One message goes that way; the stopped timer then
\* holds sendTimeout up and the queue keeps the rest for the next session, but
\* for one more with each sent callback of an orphan, which clears sendTimeout
\* (mqtt.c:261).
OutageLosesOne == lost <= 1 + late

\* A lost connection is always tried again while there is an espconn.
ReconnectionHappens ==
  connState = "TCP_RECONNECT_REQ" /\ pCon ~>
    connState # "TCP_RECONNECT_REQ" \/ ~pCon

\* What is under way comes to something, whatever the connection attempt and the
\* handshake come to and whenever a lookup fails: no lookup, SYN or CONNECT is
\* waited for for ever.  (mqtt.c has no timeout of its own there.)  The exception
\* is a lookup that ends without a connection being dialled: by the cache (619),
\* by 0.0.0.0, or by any answer once the cache has filled client->ip (78).
AttemptEnds ==
  LET Attempt == /\ connState \in {"TCP_CONNECTING", "MQTT_CONNECT_SENDING"}
                 /\ pCon
  IN  Attempt /\ (dns > 0 \/ tcp # "none") ~> ~Attempt \/ barren

\* What the exception comes to: waiting for an answer or a connection that
\* nobody was asked for, which nothing ends but the Wi-Fi callback.
Hung == /\ connState = "TCP_CONNECTING" /\ pCon
        /\ tcp = "none" /\ dns = 0 /\ orphans = {}

HangIsForever == [][Hung => Hung' \/ WifiGotIp \/ WifiLost]_vars

\* A session with something to send.
Waiting == connState = "MQTT_DATA" /\ pCon /\ queue # << >>

\* Nobody posts when sendTimeout runs out, and a send may be refused; still,
\* messages of a session that lasts keep leaving the queue (the keep-alive
\* ping restarts what has stalled).
QueueKeepsMoving == []<>~Waiting \/ []<><<SendQueued>>_vars
=============================================================================
