---------------------------- MODULE WifiStation ----------------------------
(***************************************************************************)
(* modules/wifi.c and the connecting half of libesphttpd/util/cgiwifi.c:   *)
(* WIFI_Connect with its polling timer, which tells MQTT, and the page     *)
(* that lets the user choose an access point, with its two timers.  Both   *)
(* drive the same station of the SDK.                                      *)
(*                                                                         *)
(* The three failures of the SDK, which are treated alike, are "FAILED".   *)
(***************************************************************************)
CONSTANTS Aps,     \* access points the user may choose
          NoAp     \* no usable name

VARIABLES
  status,    \* wifi_station_get_connect_status
  apCfg,     \* the SDK's station_config, kept in flash
  opmode,    \* "STATION" or "STATIONAP", kept in flash too
  linker,    \* WiFiLinker is armed
  wifiCb,    \* "wifiConnectCb" or "NULL"
  lastWifiStatus,
  told,      \* what MQTT was told last: "nothing", "connect" or "disconnect"
  stconf,    \* what the user chose last
  reassTimer, resetTimer,   \* armed
  connTryStatus

link  == <<linker, wifiCb, lastWifiStatus, told>>
page  == <<stconf, reassTimer, resetTimer, connTryStatus>>
sdk   == <<status, apCfg, opmode>>
wifi  == <<sdk, link, page>>

\* What power-up leaves: the SDK's configuration in flash
Reset ==
  /\ status' = "IDLE" /\ linker' = FALSE /\ wifiCb' = "NULL"
  /\ lastWifiStatus' = "IDLE" /\ told' = "nothing"
  /\ stconf' = NoAp /\ reassTimer' = FALSE /\ resetTimer' = FALSE
  /\ connTryStatus' = "IDLE"

InitWifi ==
  /\ status = "IDLE" /\ linker = FALSE /\ wifiCb = "NULL"
  /\ lastWifiStatus = "IDLE" /\ told = "nothing"
  /\ stconf = NoAp /\ reassTimer = FALSE /\ resetTimer = FALSE
  /\ connTryStatus = "IDLE"
  /\ apCfg = NoAp /\ opmode = "STATION"
-----------------------------------------------------------------------------
(* The SDK.                                                                *)

AttemptEnds ==
  /\ status = "CONNECTING"
  /\ status' \in {"FAILED"} \cup (IF apCfg = NoAp THEN {} ELSE {"GOT_IP"})
  /\ UNCHANGED <<apCfg, opmode, link, page>>

\* A lost connection is tried again.
ConnectionLost ==
  /\ status = "GOT_IP"
  /\ status' = "CONNECTING"
  /\ UNCHANGED <<apCfg, opmode, link, page>>

\* wifi_set_opmode(STATIONAP_MODE): the station starts by itself if auto_connect
\* was set.
StationAndAp ==
  /\ opmode' = "STATIONAP"
  /\ status' \in {"IDLE", "CONNECTING"}
  /\ UNCHANGED <<apCfg, link, page>>
-----------------------------------------------------------------------------
(* wifi.c                                                                  *)

WIFI_Connect(ssid, cb) ==
  /\ opmode' = "STATION"
  /\ wifiCb' = cb
  /\ apCfg' = ssid
  /\ linker' = TRUE
  /\ status' = "CONNECTING"
  /\ UNCHANGED <<lastWifiStatus, told, page>>

\* Mutated form: a lost address is not told.
ToldSuccess(seen) ==
  told' = IF wifiCb # "NULL" /\ seen = "GOT_IP" THEN "connect" ELSE told

\* wifiConnectCb of user_main.c
Told(seen) ==
  told' = IF wifiCb = "NULL" THEN told
          ELSE IF seen = "GOT_IP" THEN "connect" ELSE "disconnect"

\* Mutated form: the status is remembered only if somebody is told.
Unremembered(seen) == UNCHANGED <<lastWifiStatus, told>>

\* Only changes are reported.
Report(seen) ==
  IF seen = lastWifiStatus THEN UNCHANGED <<lastWifiStatus, told>>
  ELSE lastWifiStatus' = seen /\ Told(seen)

\* Mutated form: a failure is left to the SDK.
NoReconnect == UNCHANGED status

\* wifi_station_connect after one of the three failures
Reconnect == status' = IF status = "FAILED" THEN "CONNECTING" ELSE status

\* The timer, which is always armed again
wifi_check_ip ==
  /\ linker
  /\ Reconnect
  /\ Report(status)
  /\ UNCHANGED <<apCfg, opmode, linker, wifiCb, page>>

\* cgi_set_ip_2 applies addresses with WIFI_Connect and no callback.
cgi_set_ip_2(ssid) == WIFI_Connect(ssid, "NULL")
-----------------------------------------------------------------------------
(* cgiwifi.c                                                               *)

cgiWiFiConnect(ap) ==
  /\ stconf' = ap
  /\ reassTimer' = TRUE
  /\ UNCHANGED <<sdk, link, resetTimer, connTryStatus>>

\* wifi_station_set_config
SetConfig == apCfg' = stconf

\* The attempt is given 15 s, unless the module is a mere station.
Timeout == resetTimer' = (resetTimer \/ opmode # "STATION")

reassTimerCb ==
  /\ reassTimer /\ reassTimer' = FALSE
  /\ SetConfig
  /\ status' = "CONNECTING"
  /\ connTryStatus' = "WORKING"
  /\ Timeout
  /\ UNCHANGED <<opmode, link, stconf>>

\* Mutated form: the page is not told.
FailureUntold == UNCHANGED connTryStatus

\* connTryStatus=CONNTRY_FAIL
Failure == connTryStatus' = "FAIL"

\* resetTimerCb without an address
ConnectFailed ==
  /\ resetTimer /\ status # "GOT_IP"
  /\ resetTimer' = FALSE
  /\ Failure
  /\ UNCHANGED <<sdk, link, stconf, reassTimer>>

\* resetTimerCb with one: system_restart
ConnectDone ==
  /\ resetTimer /\ status = "GOT_IP"
  /\ Reset
  /\ opmode' = "STATION" /\ UNCHANGED apCfg

\* What the page is told; a success makes the restart come sooner.
Success == connTryStatus = "WORKING" /\ status = "GOT_IP"

cgiWiFiConnStatus ==
  /\ Success
  /\ resetTimer' = TRUE
  /\ UNCHANGED <<sdk, link, stconf, reassTimer, connTryStatus>>
-----------------------------------------------------------------------------
TypeOKWifi ==
  /\ status \in {"IDLE", "CONNECTING", "FAILED", "GOT_IP"}
  /\ apCfg \in Aps \cup {NoAp} /\ stconf \in Aps \cup {NoAp}
  /\ opmode \in {"STATION", "STATIONAP"}
  /\ wifiCb \in {"NULL", "wifiConnectCb"}
  /\ lastWifiStatus \in {"IDLE", "CONNECTING", "FAILED", "GOT_IP"}
  /\ told \in {"nothing", "connect", "disconnect"}
  /\ connTryStatus \in {"IDLE", "WORKING", "FAIL"}
  /\ {linker, reassTimer, resetTimer} \subseteq BOOLEAN

\* MQTT was told to connect exactly if the last status reported is an address.
MqttFollowsReports ==
  wifiCb = "wifiConnectCb" => (told = "connect" <=> lastWifiStatus = "GOT_IP")

\* cgi_set_ip_2 was called since power-up.
Applied == linker /\ wifiCb = "NULL"

\* While the page's attempt is on, the station tries what the user chose last,
\* unless a newer choice waits or addresses were applied.
WorksOnChoice ==
  connTryStatus = "WORKING" => apCfg = stconf \/ reassTimer \/ Applied
=============================================================================
