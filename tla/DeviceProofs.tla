---------------------------- MODULE DeviceProofs ----------------------------
(***************************************************************************)
(* Theorems about Device for all settings, access points and widths of     *)
(* try.  The configuration's invariant follows try through the flash: what *)
(* a start in setup mode leaves there is 0, what it finds is 1, and only a *)
(* second one counts to 2.                                                 *)
(***************************************************************************)
EXTENDS Device, TLAPS

\* What is under way at each stage, and what the flash holds
Saving ==
  /\ after # "none" => flash = Blank
  /\ stage = "off" => after = "none"
  /\ stage = "button" => after \in {"none", "button"}
  /\ stage = "normal" => after \in {"none", "normal"}
  /\ stage = "begun" => after \in {"none", "begun", "setup"}
  /\ stage = "setup" => after \in {"none", "setup"}
  /\ stage \in {"button", "normal", "setup"} /\ after = "none" => flash = sysCfg

\* The RAM holds what the user expects.
Remembered == stage # "off" /\ ~cut => sysCfg.set = wanted

\* What a counted start in setup mode leaves, and what the next one finds
Counted ==
  /\ stage = "off" /\ setups # 0 => flash.try = 0
  /\ stage = "button" /\ setups # 0 => sysCfg.try = 1
  /\ stage = "normal" => setups = 0
  /\ stage = "begun" /\ (setups # 0 \/ after = "begun") =>
       sysCfg.sta_ssid = DefaultAp /\ sysCfg.try = 0
  /\ stage = "begun" /\ setups # 0 /\ after = "none" => flash.try = 0
  /\ after = "setup" \/ stage = "setup" => sysCfg.try = 0
  /\ stage = "setup" => setups # 0

\* Without one, and without an overflow, nothing else leaves the same.
Uncounted ==
  setups = 0 /\ ~wrapped =>
    /\ flash.try # 0
    /\ stage = "button" => sysCfg.try > 1
    /\ stage = "normal" => sysCfg.try > 0

\* Before user_init starts the station nothing of a former run is left.
Fresh ==
  stage \in {"off", "button", "begun"} =>
    lastWifiStatus = "IDLE" /\ told = "nothing" /\ connTryStatus = "IDLE"

ConfigInv == TypeOKConfig /\ Saving /\ Remembered /\ Counted /\ Uncounted
             /\ SettingsSurvive /\ TwoSetupsRepair

WifiInv == TypeOKWifi /\ MqttFollowsReports /\ WorksOnChoice

IInv == ConfigInv /\ WifiInv /\ chosen \in Aps \cup {NoAp} /\ Fresh

USE ConfigAssumption, ApAssumption
-----------------------------------------------------------------------------
(* The configuration.                                                      *)

LEMMA IncrementValue ==
  ASSUME NEW t \in 0 .. TryValues - 1
  PROVE  Increment(t) = IF t = TryValues - 1 THEN 0 ELSE t + 1
<1>1. CASE t = TryValues - 1
  BY <1>1 DEF Increment
<1>2. CASE t # TryValues - 1
  <2>1. t + 1 \in 0 .. TryValues - 1
    BY <1>2
  <2>2. (t + 1) % TryValues = t + 1
    BY <2>1
  <2>3. QED
    BY <1>2, <2>2 DEF Increment
<1>3. QED
  BY <1>1, <1>2

LEMMA ConfigValues == Blank \in Config /\ Defaults \in Config
BY DEF Blank, Defaults, Config

LEMMA InitConfigHolds == InitConfig => ConfigInv
<1> SUFFICES ASSUME InitConfig PROVE ConfigInv
  OBVIOUS
<1>1. wrapped \in BOOLEAN /\ cut \in BOOLEAN
  BY Zenon DEF InitConfig
<1>2. TypeOKConfig
  BY <1>1, ConfigValues DEF InitConfig, TypeOKConfig, Config, Blank, Defaults
<1>3. QED
  BY <1>2 DEF InitConfig, ConfigInv, Saving, Remembered, Counted, Uncounted,
     SettingsSurvive, TwoSetupsRepair, Blank, Defaults

LEMMA LoadStep == ConfigInv /\ SysCFG_Load => ConfigInv'
<1> SUFFICES ASSUME ConfigInv, SysCFG_Load PROVE ConfigInv'
  OBVIOUS
<1> DEFINE t == Increment(flash.try)
<1>1. flash \in Config /\ flash.try \in 0 .. TryValues - 1
  BY DEF ConfigInv, TypeOKConfig, Config
<1>2. t = (IF flash.try = TryValues - 1 THEN 0 ELSE flash.try + 1)
      /\ t \in 0 .. TryValues - 1
  BY <1>1, IncrementValue
<1> HIDE DEF t
<1>3. sysCfg' = [flash EXCEPT !.try = t] /\ wrapped' = (wrapped \/ t = 0)
  BY <1>1 DEF SysCFG_Load, t, Config
<1>4. sysCfg' \in Config /\ sysCfg'.try = t /\ sysCfg'.set = flash.set
  BY <1>1, <1>2, <1>3 DEF Config
<1>5. /\ stage = "off" /\ stage' = "button" /\ after' = "button" /\ flash' = Blank
      /\ UNCHANGED <<wanted, setups, cut>>
  BY DEF SysCFG_Load, Save
<1>6. TypeOKConfig'
  <2>1. wrapped' \in BOOLEAN
    BY <1>3, Zenon DEF ConfigInv, TypeOKConfig
  <2>2. QED
    BY <1>4, <1>5, <2>1, ConfigValues DEF ConfigInv, TypeOKConfig
<1>7. Remembered'
  BY <1>4, <1>5 DEF ConfigInv, Saving, SettingsSurvive, Remembered
<1>8. Counted'
  BY <1>1, <1>2, <1>4, <1>5 DEF ConfigInv, Counted, TypeOKConfig
<1>9. Uncounted'
  <2>1. SUFFICES ASSUME setups = 0, ~wrapped, t # 0
                 PROVE  Blank.try # 0 /\ t > 1
    BY <1>3, <1>4, <1>5 DEF Uncounted
  <2>2. flash.try # 0
    BY <2>1 DEF ConfigInv, Uncounted
  <2>3. QED
    BY <1>1, <1>2, <2>1, <2>2 DEF Blank
<1>10. QED
  BY <1>5, <1>6, <1>7, <1>8, <1>9
  DEF ConfigInv, Saving, SettingsSurvive, TwoSetupsRepair

LEMMA WrittenStep == ConfigInv /\ Written => ConfigInv'
<1> SUFFICES ASSUME ConfigInv, Written PROVE ConfigInv'
  OBVIOUS
<1>1. /\ after # "none" /\ stage' = after /\ after' = "none" /\ flash' = sysCfg
      /\ setups' = IF stage = "begun" /\ setups < 2 THEN setups + 1
                   ELSE setups
      /\ UNCHANGED <<sysCfg, wanted, cut>>
  BY DEF Written, Write
<1>2. /\ setups' \in 0 .. 2
      /\ stage = "begun" => setups' # 0
      /\ stage # "begun" => setups' = setups
      /\ setups' = 2 => setups # 0
  <2>1. setups \in 0 .. 2
    BY DEF ConfigInv, TypeOKConfig
  <2>2. setups' = IF stage = "begun" /\ setups < 2 THEN setups + 1 ELSE setups
    BY <1>1
  <2>3. setups' \in 0 .. 2
    BY <2>1, <2>2
  <2>4. stage = "begun" => setups' # 0
    BY <2>1, <2>2
  <2>5. stage # "begun" => setups' = setups
    BY <2>2
  <2>6. setups' = 2 => setups # 0
    BY <2>1, <2>2
  <2>7. QED
    BY <2>3, <2>4, <2>5, <2>6
<1>3. TypeOKConfig'
  <2>1. wrapped' \in BOOLEAN
    BY Zenon DEF Written, ConfigInv, TypeOKConfig
  <2>2. QED
    BY <1>1, <1>2, <2>1 DEF ConfigInv, TypeOKConfig
<1>4. Saving' /\ Remembered' /\ SettingsSurvive'
  BY <1>1 DEF ConfigInv, Saving, Remembered, SettingsSurvive
<1>5. \/ stage \in {"button", "normal", "setup"} /\ after = stage
      \/ stage = "begun" /\ after \in {"begun", "setup"}
  BY <1>1 DEF ConfigInv, Saving, TypeOKConfig
<1>6. Counted'
  BY <1>1, <1>2, <1>5 DEF ConfigInv, Counted
<1>7. Uncounted'
  <2>1. SUFFICES ASSUME setups' = 0, ~wrapped' PROVE Uncounted'
    BY DEF Uncounted
  <2>2. stage # "begun" /\ setups = 0
    BY <1>2, <2>1
  <2>3. ~wrapped
    BY <2>1, <2>2 DEF Written
  <2>4. QED
    BY <1>1, <1>5, <2>2, <2>3 DEF ConfigInv, Counted, Uncounted
<1>8. TwoSetupsRepair'
  BY <1>1, <1>2, <1>5 DEF ConfigInv, Counted, TwoSetupsRepair
<1>9. QED
  BY <1>3, <1>4, <1>6, <1>7, <1>8 DEF ConfigInv

LEMMA NormalStep == ConfigInv /\ NormalMode => ConfigInv'
BY DEF ConfigInv, NormalMode, TypeOKConfig, Saving, Remembered, Counted,
   Uncounted, SettingsSurvive, TwoSetupsRepair, Config

LEMMA SetupStep == ConfigInv /\ SetupMode => ConfigInv'
<1> SUFFICES ASSUME ConfigInv, SetupMode PROVE ConfigInv'
  OBVIOUS
<1> DEFINE t == Increment(sysCfg.try)
<1>1. sysCfg \in Config /\ sysCfg.try \in 0 .. TryValues - 1
  BY DEF ConfigInv, TypeOKConfig, Config
<1>2. t = (IF sysCfg.try = TryValues - 1 THEN 0 ELSE sysCfg.try + 1)
      /\ t \in 0 .. TryValues - 1
  BY <1>1, IncrementValue
<1>3. /\ stage = "button" /\ after = "none" /\ stage' = "begun"
      /\ UNCHANGED <<setups, wrapped>>
  BY DEF SetupMode
<1>4. flash = sysCfg
  BY <1>3 DEF ConfigInv, Saving
<1>5. CASE t = 2
  <2>1. sysCfg' = Defaults /\ flash' = Blank /\ after' = "begun"
        /\ wanted' = DefaultSet /\ cut' = FALSE
    BY <1>5 DEF SetupMode, TryIsTwo, Save
  <2>2. TypeOKConfig'
    <3>1. cut' \in BOOLEAN
      BY <2>1, Zenon
    <3>2. QED
      BY <1>3, <2>1, <3>1, ConfigValues DEF ConfigInv, TypeOKConfig
  <2>3. QED
    BY <1>3, <2>1, <2>2 DEF ConfigInv, Saving, Remembered, Counted, Uncounted,
       SettingsSurvive, TwoSetupsRepair, Defaults, Blank
<1>6. CASE t # 2
  <2>1. sysCfg' = [sysCfg EXCEPT !.try = t]
        /\ UNCHANGED <<after, flash, wanted, cut>>
    BY <1>6 DEF SetupMode, TryIsTwo
  <2> HIDE DEF t
  <2>2. sysCfg' \in Config /\ sysCfg'.set = sysCfg.set
    BY <1>1, <1>2, <2>1 DEF Config
  <2>3. sysCfg.try # 1 /\ setups = 0
    <3>1. sysCfg.try # 1
      BY <1>1, <1>2, <1>6
    <3>2. QED
      BY <1>3, <3>1 DEF ConfigInv, Counted, TypeOKConfig
  <2>4. TypeOKConfig'
    BY <1>3, <2>1, <2>2 DEF ConfigInv, TypeOKConfig
  <2>5. Uncounted'
    BY <1>1, <1>3, <1>4, <2>1 DEF ConfigInv, Uncounted
  <2>6. QED
    BY <1>3, <2>1, <2>2, <2>3, <2>4, <2>5 DEF ConfigInv, Saving, Remembered,
       Counted, SettingsSurvive, TwoSetupsRepair
<1>7. QED
  BY <1>5, <1>6

LEMMA SetupCountedStep == ConfigInv /\ SetupCounted => ConfigInv'
<1> SUFFICES ASSUME ConfigInv, SetupCounted PROVE ConfigInv'
  OBVIOUS
<1>1. /\ stage = "begun" /\ after' = "setup" /\ flash' = Blank
      /\ sysCfg' = [sysCfg EXCEPT !.try = 0]
      /\ UNCHANGED <<stage, wanted, setups, wrapped, cut>>
  BY DEF SetupCounted, TryReset, Save
<1>2. /\ sysCfg' \in Config /\ sysCfg'.try = 0
      /\ sysCfg'.set = sysCfg.set /\ sysCfg'.sta_ssid = sysCfg.sta_ssid
  BY <1>1 DEF ConfigInv, TypeOKConfig, Config
<1>3. TypeOKConfig'
  BY <1>1, <1>2, ConfigValues DEF ConfigInv, TypeOKConfig
<1>4. QED
  BY <1>1, <1>2, <1>3 DEF ConfigInv, Saving, Remembered, Counted, Uncounted,
     SettingsSurvive, TwoSetupsRepair, Blank

LEMMA SavePageStep ==
  ASSUME ConfigInv, NEW settings \in Settings, SavePage(settings)
  PROVE  ConfigInv'
<1>1. /\ stage \in {"normal", "setup"} /\ after' = stage /\ flash' = Blank
      /\ sysCfg' = [sysCfg EXCEPT !.set = settings] /\ wanted' = settings
      /\ UNCHANGED <<stage, setups, wrapped, cut>>
  BY DEF SavePage, Running, Save
<1>2. /\ sysCfg' \in Config /\ sysCfg'.try = sysCfg.try
      /\ sysCfg'.set = settings /\ sysCfg'.sta_ssid = sysCfg.sta_ssid
  BY <1>1 DEF ConfigInv, TypeOKConfig, Config
<1>3. TypeOKConfig'
  BY <1>1, <1>2, ConfigValues DEF ConfigInv, TypeOKConfig
<1>4. QED
  BY <1>1, <1>2, <1>3 DEF ConfigInv, Saving, Remembered, Counted, Uncounted,
     SettingsSurvive, TwoSetupsRepair, Blank

\* The power fails: within a save the flash is blank.
LEMMA OffStep == ConfigInv /\ Off => ConfigInv'
<1> SUFFICES ASSUME ConfigInv, Off PROVE ConfigInv'
  OBVIOUS
<1>1. /\ stage # "off" /\ stage' = "off" /\ after' = "none"
      /\ setups' = IF stage \in {"begun", "setup"} /\ after = "none"
                   THEN setups ELSE 0
      /\ UNCHANGED <<flash, sysCfg, wanted, wrapped>>
  BY DEF Off
<1>2. cut' \in BOOLEAN /\ (~cut' => ~cut /\ after = "none")
  BY Zenon DEF Off, ConfigInv, TypeOKConfig
<1>3. TypeOKConfig'
  BY <1>1, <1>2 DEF ConfigInv, TypeOKConfig
<1>4. Counted'
  BY <1>1 DEF ConfigInv, Saving, Counted
<1>5. Uncounted'
  <2>1. SUFFICES ASSUME setups' = 0, ~wrapped PROVE flash.try # 0
    BY <1>1 DEF Uncounted
  <2>2. CASE after # "none"
    BY <2>2 DEF ConfigInv, Saving, Blank
  <2>3. CASE after = "none" /\ setups = 0
    BY <2>1, <2>3 DEF ConfigInv, Uncounted
  <2>4. CASE after = "none" /\ setups # 0
    <3>1. stage = "button"
      BY <1>1, <2>1, <2>4 DEF ConfigInv, Counted, TypeOKConfig
    <3>2. QED
      BY <2>4, <3>1 DEF ConfigInv, Saving, Counted
  <2>5. QED
    BY <2>2, <2>3, <2>4
<1>6. SettingsSurvive'
  BY <1>1, <1>2 DEF ConfigInv, SettingsSurvive
<1>7. QED
  BY <1>1, <1>3, <1>4, <1>5, <1>6 DEF ConfigInv, Saving, Remembered,
     TwoSetupsRepair

LEMMA ConfigKept == ConfigInv /\ UNCHANGED config => ConfigInv'
BY DEF config, ConfigInv, TypeOKConfig, Saving, Remembered, Counted, Uncounted,
   SettingsSurvive, TwoSetupsRepair
-----------------------------------------------------------------------------
(* The station.                                                            *)

LEMMA InitWifiHolds == InitWifi => WifiInv
<1> SUFFICES ASSUME InitWifi PROVE WifiInv
  OBVIOUS
<1>1. {linker, reassTimer, resetTimer} \subseteq BOOLEAN
  BY Zenon DEF InitWifi
<1>2. QED
  BY <1>1 DEF InitWifi, WifiInv, TypeOKWifi, MqttFollowsReports, WorksOnChoice

LEMMA SdkStep == WifiInv /\ (AttemptEnds \/ ConnectionLost) => WifiInv'
<1>1. WifiInv /\ AttemptEnds => WifiInv'
  BY DEF WifiInv, AttemptEnds, TypeOKWifi, MqttFollowsReports, WorksOnChoice,
     Applied, link, page
<1>2. WifiInv /\ ConnectionLost => WifiInv'
  BY DEF WifiInv, ConnectionLost, TypeOKWifi, MqttFollowsReports,
     WorksOnChoice, Applied, link, page
<1>3. QED
  BY <1>1, <1>2

LEMMA StationAndApStep == WifiInv /\ StationAndAp => WifiInv'
BY DEF WifiInv, StationAndAp, TypeOKWifi, MqttFollowsReports, WorksOnChoice,
   Applied, link, page

\* A change is reported to MQTT, or to nobody.
LEMMA CheckStep == WifiInv /\ wifi_check_ip => WifiInv'
<1> SUFFICES ASSUME WifiInv, wifi_check_ip PROVE WifiInv'
  OBVIOUS
<1>1. /\ UNCHANGED <<apCfg, opmode, linker, wifiCb, page>>
      /\ status' \in {"CONNECTING", status}
  BY DEF wifi_check_ip, Reconnect
<1>2. \/ UNCHANGED <<lastWifiStatus, told>>
      \/ lastWifiStatus' = status /\ Told(status)
  BY DEF wifi_check_ip, Report
<1>3. /\ lastWifiStatus' \in {"IDLE", "CONNECTING", "FAILED", "GOT_IP"}
      /\ told' \in {"nothing", "connect", "disconnect"}
  BY <1>2 DEF Told, WifiInv, TypeOKWifi
<1>4. TypeOKWifi'
  BY <1>1, <1>3 DEF WifiInv, TypeOKWifi, page
<1>5. MqttFollowsReports'
  BY <1>1, <1>2 DEF Told, WifiInv, MqttFollowsReports
<1>6. WorksOnChoice'
  BY <1>1 DEF WifiInv, WorksOnChoice, Applied, page
<1>7. QED
  BY <1>4, <1>5, <1>6 DEF WifiInv

\* The callback may be new only while nothing has been reported.
LEMMA ConnectStep ==
  ASSUME WifiInv, NEW ssid \in Aps \cup {NoAp},
         NEW cb \in {"NULL", "wifiConnectCb"}, WIFI_Connect(ssid, cb),
         cb = "wifiConnectCb" => /\ lastWifiStatus = "IDLE" /\ told = "nothing"
                                 /\ connTryStatus = "IDLE"
  PROVE  WifiInv'
<1>1. linker' \in BOOLEAN
  BY Zenon DEF WIFI_Connect
<1>2. TypeOKWifi'
  BY <1>1 DEF WIFI_Connect, WifiInv, TypeOKWifi, page
<1>3. MqttFollowsReports'
  BY DEF WIFI_Connect, MqttFollowsReports
<1>4. WorksOnChoice'
  BY DEF WIFI_Connect, WorksOnChoice, Applied, page
<1>5. QED
  BY <1>2, <1>3, <1>4 DEF WifiInv

LEMMA PageStep ==
  WifiInv /\ ((\E ap \in Aps : cgiWiFiConnect(ap)) \/ cgiWiFiConnStatus)
    => WifiInv'
<1>1. ASSUME WifiInv, NEW ap \in Aps, cgiWiFiConnect(ap) PROVE WifiInv'
  <2>1. {linker', reassTimer', resetTimer'} \subseteq BOOLEAN
    BY <1>1, Zenon DEF cgiWiFiConnect, WifiInv, TypeOKWifi, link
  <2>2. QED
    BY <1>1, <2>1 DEF cgiWiFiConnect, WifiInv, TypeOKWifi, MqttFollowsReports,
       WorksOnChoice, Applied, sdk, link
<1>2. ASSUME WifiInv, cgiWiFiConnStatus PROVE WifiInv'
  <2>1. {linker', reassTimer', resetTimer'} \subseteq BOOLEAN
    BY <1>2, Zenon DEF cgiWiFiConnStatus, WifiInv, TypeOKWifi, link
  <2>2. QED
    BY <1>2, <2>1 DEF cgiWiFiConnStatus, WifiInv, TypeOKWifi,
       MqttFollowsReports, WorksOnChoice, Applied, sdk, link
<1>3. QED
  BY <1>1, <1>2

LEMMA AttemptStep == WifiInv /\ (reassTimerCb \/ ConnectFailed) => WifiInv'
<1>1. ASSUME WifiInv, reassTimerCb PROVE WifiInv'
  <2>1. {linker', reassTimer', resetTimer'} \subseteq BOOLEAN
    BY <1>1, Zenon DEF reassTimerCb, Timeout, WifiInv, TypeOKWifi, link
  <2>2. QED
    BY <1>1, <2>1 DEF reassTimerCb, SetConfig, WifiInv, TypeOKWifi,
       MqttFollowsReports, WorksOnChoice, Applied, link
<1>2. ASSUME WifiInv, ConnectFailed PROVE WifiInv'
  <2>1. {linker', reassTimer', resetTimer'} \subseteq BOOLEAN
    BY <1>2, Zenon DEF ConnectFailed, WifiInv, TypeOKWifi, link
  <2>2. QED
    BY <1>2, <2>1 DEF ConnectFailed, Failure, WifiInv, TypeOKWifi,
       MqttFollowsReports, WorksOnChoice, Applied, sdk, link
<1>3. QED
  BY <1>1, <1>2

LEMMA ResetStep ==
  ASSUME WifiInv, Reset, apCfg' = apCfg, opmode' \in {"STATION", opmode}
  PROVE  WifiInv'
<1>1. {linker', reassTimer', resetTimer'} \subseteq BOOLEAN
  BY Zenon DEF Reset
<1>2. QED
  BY <1>1 DEF Reset, WifiInv, TypeOKWifi, MqttFollowsReports, WorksOnChoice

LEMMA WifiKept == WifiInv /\ UNCHANGED wifi => WifiInv'
BY DEF wifi, sdk, link, page, WifiInv, TypeOKWifi, MqttFollowsReports,
   WorksOnChoice, Applied
-----------------------------------------------------------------------------
(* The module.                                                             *)

LEMMA InitHolds == Init => IInv
BY InitConfigHolds, InitWifiHolds DEF Init, IInv, Fresh, InitWifi

LEMMA TargetIsAp == Target \in Aps \cup {NoAp}
BY DEF Target

\* The configuration and the station step, each by its own lemmas.
LEMMA PartsStep == IInv /\ [Next]_vars => ConfigInv' /\ WifiInv'
<1> SUFFICES ASSUME IInv, [Next]_vars PROVE ConfigInv' /\ WifiInv'
  OBVIOUS
<1> USE DEF IInv
<1>1. CASE Restart
  <2>1. apCfg' = apCfg /\ opmode' \in {"STATION", opmode} /\ Reset /\ Off
    BY <1>1 DEF Restart, ConnectDone
  <2>2. QED
    BY <2>1, OffStep, ResetStep
<1>2. CASE BootNormal
  <2>1. lastWifiStatus = "IDLE" /\ told = "nothing" /\ connTryStatus = "IDLE"
    BY <1>2 DEF BootNormal, NormalMode, Fresh
  <2>2. WifiInv'
    BY <1>2, <2>1, TargetIsAp, ConnectStep DEF BootNormal
  <2>3. QED
    BY <1>2, <2>2, NormalStep DEF BootNormal
<1>3. CASE Boot
  BY <1>3, LoadStep, WrittenStep, WifiKept DEF Boot
<1>4. CASE BootSetup
  BY <1>4, SetupStep, SetupCountedStep, WifiKept, StationAndApStep
  DEF BootSetup
<1>5. CASE Pages
  <2>1. ASSUME NEW settings \in Settings, SavePage(settings), UNCHANGED wifi
        PROVE  ConfigInv' /\ WifiInv'
    BY <2>1, SavePageStep, WifiKept
  <2>2. ASSUME UNCHANGED config, cgi_set_ip_2(Target)
        PROVE  ConfigInv' /\ WifiInv'
    <3>1. WifiInv'
      BY <2>2, TargetIsAp, ConnectStep DEF cgi_set_ip_2
    <3>2. QED
      BY <2>2, <3>1, ConfigKept
  <2>3. ASSUME UNCHANGED config,
               (\E ap \in Aps : cgiWiFiConnect(ap)) \/ cgiWiFiConnStatus
        PROVE  ConfigInv' /\ WifiInv'
    BY <2>3, PageStep, ConfigKept
  <2>4. QED
    BY <1>5, <2>1, <2>2, <2>3 DEF Pages
<1>6. CASE Timers
  BY <1>6, CheckStep, AttemptStep, ConfigKept DEF Timers
<1>7. CASE PowerOff
  BY <1>7, OffStep, ResetStep DEF PowerOff
<1>8. CASE Station
  BY <1>8, SdkStep, ConfigKept DEF Station
<1>9. CASE UNCHANGED vars
  BY <1>9, ConfigKept, WifiKept DEF vars
<1>10. QED
  BY <1>1, <1>2, <1>3, <1>4, <1>5, <1>6, <1>7, <1>8, <1>9 DEF Next

\* What is left of a former run is gone at power-up, and nothing but user_init
\* runs until the mode is known.
LEMMA FreshStep == IInv /\ [Next]_vars => Fresh'
<1> SUFFICES ASSUME IInv, [Next]_vars PROVE Fresh'
  OBVIOUS
<1>1. Fresh /\ TypeOKConfig /\ Saving
  BY DEF IInv, ConfigInv
<1>2. CASE Restart \/ PowerOff
  BY <1>2 DEF Restart, ConnectDone, PowerOff, Reset, Fresh
<1>3. CASE BootNormal
  BY <1>3 DEF BootNormal, NormalMode, Fresh
<1>4. CASE Boot
  <2>1. stage' \in {"off", "button", "begun"} => stage \in {"off", "button", "begun"}
    BY <1>1, <1>4 DEF Boot, SysCFG_Load, Written, Saving, TypeOKConfig
  <2>2. UNCHANGED <<lastWifiStatus, told, connTryStatus>>
    BY <1>4 DEF Boot, wifi, link, page
  <2>3. QED
    BY <1>1, <2>1, <2>2 DEF Fresh
<1>5. CASE BootSetup
  <2>1. stage = "button" \/ stage = "begun"
    BY <1>5 DEF BootSetup, SetupMode, SetupCounted
  <2>2. UNCHANGED <<lastWifiStatus, told, connTryStatus>>
    BY <1>5 DEF BootSetup, StationAndAp, wifi, link, page
  <2>3. QED
    BY <1>1, <2>1, <2>2 DEF Fresh
<1>6. CASE Pages \/ Timers \/ Station
  <2>1. stage \in {"normal", "setup"} /\ stage' = stage
    BY <1>6 DEF Pages, Timers, Station, SavePage, Running, config
  <2>2. QED
    BY <2>1 DEF Fresh
<1>7. CASE UNCHANGED vars
  BY <1>1, <1>7 DEF vars, config, wifi, link, page, Fresh
<1>8. QED
  BY <1>2, <1>3, <1>4, <1>5, <1>6, <1>7 DEF Next

LEMMA StepHolds == IInv /\ [Next]_vars => IInv'
<1> SUFFICES ASSUME IInv, [Next]_vars PROVE IInv'
  OBVIOUS
<1>1. chosen' \in {chosen, NoAp, apCfg}
  BY DEF Next, Restart, BootNormal, vars
<1>2. chosen' \in Aps \cup {NoAp}
  BY <1>1 DEF IInv, WifiInv, TypeOKWifi
<1>3. QED
  BY <1>2, PartsStep, FreshStep DEF IInv

LEMMA Invariance == Spec => []IInv
BY InitHolds, StepHolds, PTL DEF Spec

\* Every state's configuration, station and timers have their types.
THEOREM TypeCorrect == Spec => []TypeOK
<1>1. IInv => TypeOK
  BY DEF IInv, ConfigInv, WifiInv, TypeOK
<1>2. QED
  BY <1>1, Invariance, PTL

\* Settings survive every start and power failure, except one in SysCFG_Save.
THEOREM SettingsAreKept == Spec => []SettingsSurvive
BY Invariance, PTL DEF IInv, ConfigInv

\* Two starts in setup mode in a row repair any configuration.
THEOREM SetupsRepair == Spec => []TwoSetupsRepair
BY Invariance, PTL DEF IInv, ConfigInv

\* MQTT was told of the last status reported, until addresses are applied.
THEOREM MqttIsTold == Spec => []MqttFollowsReports
BY Invariance, PTL DEF IInv, WifiInv

\* The page's attempt is for what the user chose last.
THEOREM ChoiceIsTried == Spec => []WorksOnChoice
BY Invariance, PTL DEF IInv, WifiInv

\* Unless try overflowed, the defaults are restored only by the second of two
\* starts in setup mode.
THEOREM DefaultsAreAskedFor == Spec => DefaultsNeedTwoSetups
<1>1. ASSUME IInv, [Next]_vars, stage = "button", after' = "begun"
      PROVE  setups >= 1 \/ wrapped
  <2>1. SUFFICES ASSUME setups = 0, ~wrapped PROVE FALSE
    BY <1>1 DEF IInv, ConfigInv, TypeOKConfig
  <2>2. sysCfg.try > 1 /\ sysCfg.try \in 0 .. TryValues - 1
    BY <1>1, <2>1 DEF IInv, ConfigInv, Uncounted, TypeOKConfig, Config
  <2>3. Increment(sysCfg.try) # 2
    BY <2>2, IncrementValue
  <2>4. SetupMode
    <3>1. ~Boot
      BY <1>1 DEF Boot, SysCFG_Load, Written
    <3>2. ~(Restart \/ BootNormal \/ PowerOff)
      BY <1>1 DEF Restart, BootNormal, NormalMode, PowerOff, Off
    <3>3. ~(Pages \/ Timers \/ Station)
      BY <1>1 DEF Pages, Timers, Station, SavePage, Running
    <3>4. ~SetupCounted
      BY <1>1 DEF SetupCounted
    <3>5. ~UNCHANGED vars
      BY <1>1 DEF vars, config, IInv, ConfigInv, Saving
    <3>6. QED
      BY <1>1, <3>1, <3>2, <3>3, <3>4, <3>5 DEF Next, BootSetup
  <2>5. QED
    BY <1>1, <2>3, <2>4 DEF SetupMode, TryIsTwo, IInv, ConfigInv, Saving
<1>2. IInv /\ [Next]_vars =>
        [stage = "button" /\ after' = "begun" => setups >= 1 \/ wrapped]_config
  BY <1>1
<1>3. QED
  BY <1>2, Invariance, PTL DEF Spec, DefaultsNeedTwoSetups
=============================================================================
