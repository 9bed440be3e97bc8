----------------------------- MODULE BootConfig -----------------------------
(***************************************************************************)
(* modules/config.c and the beginning of user_init in user/user_main.c:    *)
(* the configuration in flash, the boots that read and write it, and the   *)
(* counter try, by which a second start in setup mode restores the         *)
(* defaults.  SysCFG_Save erases the sector before it writes it, and the   *)
(* power may fail in between.                                              *)
(***************************************************************************)
EXTENDS Integers

CONSTANTS Settings,    \* what the pages set, Default_CFG's settings included
          DefaultSet,  \* what Default_CFG sets
          DefaultAp,   \* STA_SSID
          Erased,      \* 0xFF in every byte of a field
          TryValues    \* try, a byte, counts modulo so many: 256

ASSUME ConfigAssumption ==
  DefaultSet \in Settings /\ Erased \notin Settings /\ Erased # DefaultAp
  /\ TryValues \in Nat /\ TryValues > 3

VARIABLES
  stage,    \* "off", "button", "normal", or setup mode: "begun", then "setup"
  after,    \* while SysCFG_Save is between erase and write: the stage to come
  flash,    \* the configuration's sector
  sysCfg,   \* the configuration in RAM
  wanted,   \* history: the settings the user expects
  setups,   \* history: starts in setup mode in a row that got to save, 2 for more
  wrapped,  \* history: try overflowed since the last of them
  cut       \* history: the power failed within SysCFG_Save since Default_CFG

config == <<stage, after, flash, sysCfg, wanted, setups, wrapped, cut>>

Config == [sta_ssid : {DefaultAp, Erased}, set : Settings \cup {Erased},
           try : 0 .. TryValues - 1]

Blank == [sta_ssid |-> Erased, set |-> Erased, try |-> TryValues - 1]

Defaults == [sta_ssid |-> DefaultAp, set |-> DefaultSet, try |-> 0]

InitConfig ==
  /\ stage = "off" /\ after = "none"
  /\ flash \in {Blank, Defaults} /\ sysCfg = flash /\ wanted = flash.set
  /\ setups = (IF flash = Blank THEN 0 ELSE 1) /\ wrapped = FALSE /\ cut = FALSE
-----------------------------------------------------------------------------
Running == stage \in {"normal", "setup"} /\ after = "none"

\* SysCFG_Save up to the erased sector
Save(next) ==
  /\ flash' = Blank
  /\ after' = next

\* Mutated form: the counter alone.
WriteTry == flash' = [flash EXCEPT !.try = sysCfg.try]

\* spi_flash_write
Write == flash' = sysCfg

\* ... and on with what called SysCFG_Save.
Written ==
  /\ after # "none"
  /\ Write
  /\ stage' = after /\ after' = "none"
  /\ setups' = IF stage = "begun" /\ setups < 2 THEN setups + 1 ELSE setups
  /\ wrapped' = (wrapped /\ stage # "begun")
  /\ UNCHANGED <<sysCfg, wanted, cut>>

\* One more try, with the integer's width.
Increment(try) == (try + 1) % TryValues

\* SysCFG_Load; sysCfg.try++; SysCFG_Save
SysCFG_Load ==
  /\ stage = "off"
  /\ stage' = "button"
  /\ sysCfg' = [flash EXCEPT !.try = Increment(@)]
  /\ Save("button")
  /\ wrapped' = (wrapped \/ sysCfg'.try = 0)
  /\ UNCHANGED <<wanted, setups, cut>>

\* The button is not held down.
NormalMode ==
  /\ stage = "button" /\ after = "none"
  /\ stage' = "normal"
  /\ setups' = 0
  /\ UNCHANGED <<after, flash, sysCfg, wanted, wrapped, cut>>

\* Mutated form: any later count.
TwoOrMore(try) == try >= 2

\* The count of this start and the last one's, which left 0
TryIsTwo(try) == try = 2

\* The button is held down: the second time in a row, Default_CFG.
SetupMode ==
  /\ stage = "button" /\ after = "none"
  /\ stage' = "begun"
  /\ LET try == Increment(sysCfg.try) IN
     IF TryIsTwo(try)
     THEN /\ sysCfg' = Defaults
          /\ Save("begun")
          /\ wanted' = DefaultSet /\ cut' = FALSE
     ELSE /\ sysCfg' = [sysCfg EXCEPT !.try = try]
          /\ UNCHANGED <<after, flash, wanted, cut>>
  /\ UNCHANGED <<setups, wrapped>>

\* sysCfg.try=0
TryReset == sysCfg' = [sysCfg EXCEPT !.try = 0]

\* ... and SysCFG_Save
SetupCounted ==
  /\ stage = "begun" /\ after = "none"
  /\ TryReset
  /\ Save("setup")
  /\ UNCHANGED <<stage, wanted, setups, wrapped, cut>>

\* cgi_set_ip_1, cgi_set_mqtt or cgi_set_ntp
SavePage(settings) ==
  /\ Running
  /\ sysCfg' = [sysCfg EXCEPT !.set = settings]
  /\ wanted' = settings
  /\ Save(stage)
  /\ UNCHANGED <<stage, setups, wrapped, cut>>

\* The power fails, or system_restart, which no callback calls within a save.
Off ==
  /\ stage # "off"
  /\ stage' = "off" /\ after' = "none"
  /\ setups' = IF stage \in {"begun", "setup"} /\ after = "none"
               THEN setups ELSE 0
  /\ cut' = (cut \/ after # "none")
  /\ UNCHANGED <<flash, sysCfg, wanted, wrapped>>
-----------------------------------------------------------------------------
TypeOKConfig ==
  /\ stage \in {"off", "button", "begun", "normal", "setup"}
  /\ after \in {"none", "button", "begun", "normal", "setup"}
  /\ flash \in Config /\ sysCfg \in Config
  /\ wanted \in Settings \cup {Erased} /\ setups \in 0 .. 2
  /\ wrapped \in BOOLEAN /\ cut \in BOOLEAN

\* What a page set, or the defaults if they were restored since, is in flash
\* whenever no save is under way, whatever starts and power failures there were
\* outside SysCFG_Save.
SettingsSurvive == after = "none" /\ ~cut => flash.set = wanted

\* The defaults are restored by the second of two starts in setup mode, never by
\* a single one: unless try overflowed, which it also does after an erased flash.
DefaultsNeedTwoSetups ==
  [][stage = "button" /\ after' = "begun" => setups >= 1 \/ wrapped]_config

\* Two starts in setup mode repair any configuration.
TwoSetupsRepair == stage = "setup" /\ setups = 2 => sysCfg.sta_ssid = DefaultAp
=============================================================================
