------------------------------- MODULE Device -------------------------------
(***************************************************************************)
(* user/user_main.c: the module from power-up to power-up.  user_init      *)
(* composes the configuration (BootConfig) with the station (WifiStation): *)
(* normal mode starts WIFI_Connect with the configuration's access point,  *)
(* setup mode an access point of its own; the web pages run in both.       *)
(***************************************************************************)
EXTENDS BootConfig, WifiStation

ASSUME ApAssumption == DefaultAp \in Aps /\ NoAp \notin Aps

VARIABLE chosen   \* history: until normal mode, what the page's restart was
                  \* connected to

vars == <<config, wifi, chosen>>

Init == InitConfig /\ InitWifi /\ chosen = NoAp

\* The name WIFI_Connect is given: erased flash is no name.
Target == IF sysCfg.sta_ssid = Erased THEN NoAp ELSE DefaultAp

Boot == (SysCFG_Load \/ Written) /\ UNCHANGED wifi

BootNormal ==
  /\ NormalMode
  /\ WIFI_Connect(Target, "wifiConnectCb")
  /\ chosen' = NoAp

BootSetup ==
  \/ SetupMode /\ UNCHANGED wifi
  \/ SetupCounted /\ StationAndAp

\* The pages
Pages ==
  \/ \E settings \in Settings : SavePage(settings) /\ UNCHANGED wifi
  \/ /\ Running /\ UNCHANGED config
     /\ \/ cgi_set_ip_2(Target)
        \/ \E ap \in Aps : cgiWiFiConnect(ap)
        \/ cgiWiFiConnStatus

\* The timers
Timers ==
  /\ Running /\ UNCHANGED config
  /\ wifi_check_ip \/ reassTimerCb \/ ConnectFailed

\* resetTimerCb restarts the module once the user's choice works.
Restart ==
  /\ Running
  /\ ConnectDone
  /\ chosen' = apCfg
  /\ Off

\* cgiWiFiSetMode restarts it too; otherwise the power fails.
PowerOff == Off /\ Reset /\ UNCHANGED <<apCfg, opmode>>

\* The SDK's tasks run between the callbacks.
Station == Running /\ (AttemptEnds \/ ConnectionLost) /\ UNCHANGED config

Next ==
  \/ Restart \/ BootNormal
  \/ /\ Boot \/ BootSetup \/ Pages \/ Timers \/ PowerOff \/ Station
     /\ UNCHANGED chosen

\* A due timer runs between the callbacks, however many pages save; a save ends,
\* and so does an attempt.
Fairness ==
  /\ SF_vars(Running /\ wifi_check_ip /\ UNCHANGED <<config, chosen>>)
  /\ SF_vars(Running /\ reassTimerCb /\ UNCHANGED <<config, chosen>>)
  /\ SF_vars(Restart \/ (Running /\ ConnectFailed /\ UNCHANGED <<config, chosen>>))
  /\ WF_vars(Written /\ UNCHANGED <<wifi, chosen>>)
  /\ SF_vars(Running /\ AttemptEnds /\ UNCHANGED <<config, chosen>>)

Spec == Init /\ [][Next]_vars /\ Fairness
-----------------------------------------------------------------------------
TypeOK == TypeOKConfig /\ TypeOKWifi /\ chosen \in Aps \cup {NoAp}

\* An attempt made while the module is an access point comes to an end: a
\* failure, a restart, or the user chooses anew.
AttemptIsSettled ==
  (connTryStatus = "WORKING" /\ opmode = "STATIONAP") ~>
    (connTryStatus # "WORKING" \/ opmode = "STATION" \/ reassTimer)

\* In normal mode a failed attempt is always followed by another one.
FailureIsRetried ==
  (stage = "normal" /\ status = "FAILED") ~> (stage # "normal" \/ status # "FAILED")

\* A station that keeps its address gets MQTT connected, unless cgi_set_ip_2
\* took the callback away.
AddressReachesMqtt ==
  <>[](stage = "normal" /\ status = "GOT_IP" /\ ~Applied) => <>[](told = "connect")

\* README: "If you've already connected your module to your WLAN before, it'll
\* keep those settings."
WlanIsKept ==
  [][stage = "button" /\ stage' = "normal" /\ chosen # NoAp => apCfg' = chosen]_vars
=============================================================================
