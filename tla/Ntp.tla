--------------------------------- MODULE Ntp ---------------------------------
(***************************************************************************)
(* driver/ntp.c and the NTP half of user/pages/page_ntp.c: requests for    *)
(* the time.  There is one pCon and one timer; whoever asks again forgets  *)
(* the connection of the request before, which stays with the SDK.         *)
(* Datagrams are lost, late or twice there; what an answer says is a date  *)
(* (Calendar has the conversion) and goes to DS1307_Set_Date (I2cRtc).     *)
(***************************************************************************)
EXTENDS Integers, FiniteSets

CONSTANTS Servers,       \* addresses that answer
          Connections    \* of the SDK, numbers from 1 (bound)

VARIABLES ntp_server,    \* "none" for an empty address
          ntp_flag, ntp, \* sysCfg: by name or by address, and which
          lookups,       \* names that espconn_gethostbyname is resolving
          pCon,          \* 0 if NULL
          live,          \* connections that are not freed, with the server asked
          ntp_timeout    \* the timer is armed

vars == <<ntp_server, ntp_flag, ntp, lookups, pCon, live, ntp_timeout>>
settings == <<ntp_flag, ntp>>

Init ==
  /\ ntp_server \in Servers /\ ntp_flag \in {0, 1} /\ ntp \in Servers
  /\ lookups = {} /\ pCon = 0 /\ live = {} /\ ntp_timeout = FALSE

Used == {c.id : c \in live}

\* The next connections that os_zalloc finds.
New(n) == CHOOSE s \in SUBSET (Connections \ Used) : Cardinality(s) = n

\* ntp_get_time, n times in a row: the last one is pCon.
ntp_get_time(n, server) ==
  /\ Cardinality(Connections \ Used) >= n
  /\ live' = live \cup {[id |-> i, server |-> server] : i \in New(n)}
  /\ pCon' \in New(n) /\ \A i \in New(n) : i <= pCon'
  /\ ntp_timeout' = TRUE

\* The message "1" under the topic /esp1/NTP.
AskedByMqtt ==
  /\ ntp_get_time(1, ntp_server)
  /\ UNCHANGED <<ntp_server, settings, lookups>>

cgi_set_ntp ==
  /\ ntp_flag' \in {0, 1} /\ ntp' \in Servers
  /\ UNCHANGED <<ntp_server, lookups, pCon, live, ntp_timeout>>

\* The address is taken over at once, a name once it is found (or never, when the SDK
\* has the answer already and does not call back); a request is made meanwhile.
cgi_apply_ntp ==
  \/ /\ ntp_flag = 0
     /\ ntp_server' = ntp
     /\ ntp_get_time(2, ntp)
     /\ UNCHANGED <<settings, lookups>>
  \/ /\ ntp_flag = 1
     /\ lookups' \in {lookups, lookups \cup {ntp}}
     /\ ntp_get_time(1, ntp_server)
     /\ UNCHANGED <<ntp_server, settings>>

\* A name that is not found goes on as an empty address.
ntpDNSfound ==
  \E name \in lookups :
    /\ lookups' = lookups \ {name}
    /\ ntp_server' \in {name, "none"}
    /\ ntp_get_time(1, ntp_server')
    /\ UNCHANGED settings

\* Mutated form: an answer leaves the timer running.
AnswerLeavesTimer == UNCHANGED ntp_timeout

DisarmTimeout == ntp_timeout' = FALSE

\* pCon is deleted, whichever connection the event belongs to.
Delete ==
  /\ live' = {c \in live : c.id # pCon}
  /\ pCon' = 0

\* An answer to any connection that was not freed: its date is set (I2cRtc!Ask).
ntp_udp_recv ==
  /\ \E c \in live : c.server # "none"
  /\ DisarmTimeout /\ Delete
  /\ UNCHANGED <<ntp_server, settings, lookups>>

ntp_udp_timeout ==
  /\ ntp_timeout
  /\ ntp_timeout' = FALSE /\ Delete
  /\ UNCHANGED <<ntp_server, settings, lookups>>

Next ==
  \/ AskedByMqtt \/ cgi_set_ntp \/ cgi_apply_ntp \/ ntpDNSfound
  \/ ntp_udp_recv \/ ntp_udp_timeout
-----------------------------------------------------------------------------
\* However requests overtake each other, and whichever of them is answered: the
\* connection in pCon is one that was not freed, and the timer runs for as long as
\* there is one, so that it is freed in the end and nothing is freed twice.
RequestIsTimed ==
  /\ pCon # 0 => pCon \in Used
  /\ ntp_timeout <=> pCon # 0
=============================================================================
